---- MODULE Spec2Model ----
(***************************************************************************)
(* Verification model of the Machina autonomic agent runtime.              *)
(*                                                                         *)
(* One module, several specifications, one per subsystem:                  *)
(*   SpecDispatch  permission engine + tool dispatch (machina_permissions, *)
(*                 machina_dispatch_exec, machina_dispatch)                *)
(*   SpecFs        the AID.FILE.WRITE.v1 handler over a file system with   *)
(*                 symlinks                                                *)
(*   SpecEngine    AutonomicEngine.tick / touch / burst                    *)
(*   SpecGate      RegressionGate                                          *)
(*   SpecSkills    the writers of the skills stream                        *)
(*   SpecChat      per-chat lock of handle_message                         *)
(*   SpecHeartbeat autonomic_heartbeat and its tick threads                *)
(*   SpecPulse     permission pre-check / approval round trip of a turn    *)
(*   SpecPerm      check_permission and the session grants alone            *)
(*   SpecLoop      execute loop of a pulse turn: budgets and /stop         *)
(*   SpecBurst     one burst session, turn by turn                         *)
(*   SpecStream    appends and rotation of one JSONL stream                *)
(*   SpecHygiene   do_hygiene: trust prune and rotation with archive       *)
(*   SpecGenesis   the emitters of genesis suggestions                     *)
(*   SpecHealer    SelfHealer.attempt_heal and its rate limit              *)
(*   SpecCuriosity CuriosityDriver.can_run / run_cycle                     *)
(*   SpecArtifacts scripts and skill records of generated code             *)
(*   SpecGraph     GraphMemory appends and compaction                      *)
(*   SpecStimulus  RandomStimulus.pick / mark_done                         *)
(*   SpecTick      the level blocks of one tick, with exceptions           *)
(*   SpecStall     stall accounting of the turns of a burst session        *)
(*   SpecCont      execute loop: error counting, _next chain, step queue   *)
(*   SpecRoute     auto-routing override of a chat over its turns          *)
(*   SpecSuppress  curiosity fail counts per goal                          *)
(*   SpecMarks     executed marks of genesis suggestions in do_heal        *)
(*   SpecReflect   reflect cooldown in ticks and burst turns               *)
(*   SpecAlerts    the alert queue (SpecAlertsFair: with fair delivery)    *)
(*   SpecBreaker   circuit breaker of heal categories                      *)
(*   SpecGovernor  EvolutionGovernor proposal states                       *)
(* Each specification starts its own subsystem from any configuration the  *)
(* code accepts, keeps the other subsystems at rest, and its actions leave *)
(* the variables of the other subsystems unchanged.                        *)
(***************************************************************************)
EXTENDS Integers, Sequences, FiniteSets, TLC

VARIABLES
    \* --- permission engine / dispatch ---
    mode,            \* MACHINA_PERMISSION_MODE
    session_grants,  \* machina_permissions._session_grants
    overrides,       \* MACHINA_PERMISSION_OVERRIDES (aid -> level, "none" = absent)
    manifest,        \* side_effects of the manifest entry of the custom tool ({"absent"} = no entry)
    approveAllAsk,   \* MACHINA_AUTONOMIC_APPROVE_ALL_ASK is on
    autoApprove,     \* MACHINA_AUTONOMIC_AUTO_APPROVE is on
    lastCall,        \* record of the most recent permission / dispatch call
    \* --- regression gate ---
    baseline,        \* RegressionGate.baseline
    gateLast,        \* what the most recent gate operation did
    \* --- autonomic heartbeat (telegram_bot) ---
    tick_lock,       \* _tick_lock is held
    tick_thread,     \* state of the thread each heartbeat started ("none" if it started none)
    beats,           \* heartbeats fired so far
    \* --- per-chat lock of handle_message (telegram_bot_pulse) ---
    chat_locks,      \* _chat_locks: chat -> turn holding the lock (0 = free)
    turn_pc,         \* where each turn (one handle_message call) stands
    turn_cycles,     \* pulse cycles each turn has run
    conversation_history, \* chat -> sequence of <<turn, role>>
    \* --- file system seen by the AID.FILE.WRITE.v1 handler ---
    fs_kind,         \* existing path -> "dir" | "file" (paths are sequences of names)
    fs_links,        \* symlink path -> absolute target path
    fs_last,         \* what the most recent write call did
    \* --- skills stream and its writers ---
    skills_stream,   \* skills.jsonl: sequence of records
    skill_hash_cache,\* machina_dispatch._skill_hash_cache
    cache_fresh,     \* the cache was refreshed less than 60 s ago
    skill_last,      \* what the most recent writer did
    \* --- pulse turn: permission pre-check and approval round trip ---
    pending_approvals, \* _pending_approvals: approval id -> turn whose entry is stored
    entry_approved,  \* per request: the "approved" field of the entry it created
    event_set,       \* per request: its asyncio.Event is set
    callbacks,       \* requests whose callback has pressed but not yet set the event
    messages,        \* approval messages on screen: [turn, cycle, id]
    approval_clock,  \* int(time.time() * 100): the source of approval ids
    p_pc,            \* per turn: precheck / waiting / dispatch / done
    p_cycle,         \* per turn: current pulse cycle
    p_action,        \* per turn: the action of the current intent
    p_req,           \* per turn: [asked, skipped, id] of the current pre-check
    session_approved,\* per turn: _session_approved_aids
    approve_presses, \* approval ids an approve press was handled for
    approved_msgs,   \* <<turn, cycle>> of the messages approve was pressed on
    refused,         \* <<turn, cycle>> whose request was denied, timed out or unsent
    p_last,          \* per turn: record of the most recent dispatch
    \* --- autonomic engine ---
    eng_dev,         \* AutonomicEngine._dev: the DEV timing profile is in force
    eng_now,         \* time.time()
    engine,          \* last_activity, level_done, _prev_hashes, _stasis, _stasis_entered
    mem_counts,      \* line counts of the memory streams the state hash reads
    eng_ticks,       \* tick() calls so far
    eng_touches,     \* touch() calls so far
    stasis_since,    \* time of the latest change of _stasis from False to True
    tick_rec,        \* what the most recent tick() call did
    \* --- execute loop of a pulse turn (telegram_bot_pulse) ---
    pulse_cancel,    \* _pulse_cancel[chat_id] of the one chat the turns belong to
    xloop,           \* per turn: position, cycle, elapsed time, results, response, exit
    \* --- one burst session of the autonomic engine (_engine_burst) ---
    bsess,           \* position, clock, last_activity, stall count, how it ended
    \* --- one JSONL stream: appenders and the rotation (machina_shared, _engine_ops) ---
    stream_file,     \* the file's content, a sequence of chunks <<append, part>>
    stream_lock,     \* the open files that hold the exclusive flock, NoHolder if free
    app_pc,          \* per append call: its position
    rot,             \* the rotate call: position, lines read, calls made
    lock_order,      \* append calls in the order they got the lock
    evicted,         \* chunks rotate has removed from the stream (and archived)
    contended,       \* an append call waited for the lock while rotate rewrote the file
    \* --- further subsystems, one record each ---
    hyg,             \* hygiene: the experience stream, its archive, the clock, what was appended
    gen,             \* genesis suggestions: the stream, and each emitter's position, snapshot and pending records
    heal,            \* SelfHealer: the clock, genesis_recent, and the times of the attempts made
    curio,           \* CuriosityDriver: the clock, last_run, daily_count, daily_reset_ts, the cycle starts
    art,             \* generated code: the scripts in work/scripts/utils, the skills stream, the verdict on each generated code
    graph,           \* GraphMemory: the in-memory entities and relations, the two files, the append count
    stim,            \* RandomStimulus: the pool, the done hashes and their file, the reset and cooldown state, the items seen
    tk,              \* one tick of the engine: the level reached, the handlers run or skipped, the audit entries
    stallv,          \* stall accounting of a burst session: the counter, the turns made, what the last turn did
    cont,            \* continuation of the execute loop: the intent, the plan step queue, the counters, what the last pass did
    route,           \* auto-routing: the chats with a backend override, and each chat's turn
    sup,             \* curiosity fail counts: _curiosity_fail_count per goal key, what the last curiosity level did
    marks,           \* executed marks: the lines of genesis_suggestions.jsonl, the heal runs per key, what the last run did
    refl,            \* reflect cooldown: the clock, level_done of reflect, whether a burst is on, the last two reflect runs
    alerts,          \* the alert queue: the queued alerts, the ones being sent, the retry index, and which alerts were accepted, cleared, attempted, delivered
    brk,             \* circuit breaker: the clock, genesis_recent, the consecutive fails and the pause of each category, the last heal
    gov              \* EvolutionGovernor: the state and the changes of each proposal, the id counter, what the last operation did

permConfig == <<mode, overrides, manifest, approveAllAsk, autoApprove>>
permVars == <<permConfig, session_grants, lastCall>>

gateVars == <<baseline, gateLast>>

hbVars == <<tick_lock, tick_thread, beats>>
chatVars == <<chat_locks, turn_pc, turn_cycles, conversation_history>>

fsVars == <<fs_kind, fs_links, fs_last>>
skillVars == <<skills_stream, skill_hash_cache, cache_fresh, skill_last>>
approvalVars == <<pending_approvals, entry_approved, event_set, callbacks, messages, approval_clock>>
turnVars == <<p_pc, p_cycle, p_action, p_req, session_approved, p_last>>
ghostVars == <<approve_presses, approved_msgs, refused>>
pulseVars == <<approvalVars, turnVars, ghostVars>>
engVars == <<eng_dev, eng_now, engine, mem_counts, eng_ticks, eng_touches, stasis_since, tick_rec>>
loopVars == <<pulse_cancel, xloop>>
streamVars == <<stream_file, stream_lock, app_pc, rot, lock_order, evicted, contended>>
oldVars == <<permVars, gateVars, hbVars, chatVars, fsVars, skillVars, pulseVars, engVars, loopVars, bsess, streamVars>>
moreVars == <<hyg, gen, heal, curio, art, graph, stim, tk, stallv, cont, route, sup, marks, refl, alerts, brk, gov>>
nonHygVars == <<oldVars, gen, heal, curio, art, graph, stim, tk, stallv, cont, route, sup, marks, refl, alerts, brk, gov>>
nonGenVars == <<oldVars, hyg, heal, curio, art, graph, stim, tk, stallv, cont, route, sup, marks, refl, alerts, brk, gov>>
nonHealVars == <<oldVars, hyg, gen, curio, art, graph, stim, tk, stallv, cont, route, sup, marks, refl, alerts, brk, gov>>
nonCurVars == <<oldVars, hyg, gen, heal, art, graph, stim, tk, stallv, cont, route, sup, marks, refl, alerts, brk, gov>>
nonArtVars == <<oldVars, hyg, gen, heal, curio, graph, stim, tk, stallv, cont, route, sup, marks, refl, alerts, brk, gov>>
nonGraphVars == <<oldVars, hyg, gen, heal, curio, art, stim, tk, stallv, cont, route, sup, marks, refl, alerts, brk, gov>>
nonStimVars == <<oldVars, hyg, gen, heal, curio, art, graph, tk, stallv, cont, route, sup, marks, refl, alerts, brk, gov>>
nonTkVars == <<oldVars, hyg, gen, heal, curio, art, graph, stim, stallv, cont, route, sup, marks, refl, alerts, brk, gov>>
nonStallVars == <<oldVars, hyg, gen, heal, curio, art, graph, stim, tk, cont, route, sup, marks, refl, alerts, brk, gov>>
nonContVars == <<oldVars, hyg, gen, heal, curio, art, graph, stim, tk, stallv, route, sup, marks, refl, alerts, brk, gov>>
nonRouteVars == <<oldVars, hyg, gen, heal, curio, art, graph, stim, tk, stallv, cont, sup, marks, refl, alerts, brk, gov>>
nonSupVars == <<oldVars, hyg, gen, heal, curio, art, graph, stim, tk, stallv, cont, route, marks, refl, alerts, brk, gov>>
nonMarkVars == <<oldVars, hyg, gen, heal, curio, art, graph, stim, tk, stallv, cont, route, sup, refl, alerts, brk, gov>>
nonReflVars == <<oldVars, hyg, gen, heal, curio, art, graph, stim, tk, stallv, cont, route, sup, marks, alerts, brk, gov>>
nonAlertVars == <<oldVars, hyg, gen, heal, curio, art, graph, stim, tk, stallv, cont, route, sup, marks, refl, brk, gov>>
nonBrkVars == <<oldVars, hyg, gen, heal, curio, art, graph, stim, tk, stallv, cont, route, sup, marks, refl, alerts, gov>>
nonGovVars == <<oldVars, hyg, gen, heal, curio, art, graph, stim, tk, stallv, cont, route, sup, marks, refl, alerts, brk>>
auxVars == <<loopVars, bsess, streamVars, moreVars>>

nonPermVars == <<gateVars, hbVars, chatVars, fsVars, skillVars, pulseVars, engVars, auxVars>>
nonGateVars == <<permVars, hbVars, chatVars, fsVars, skillVars, pulseVars, engVars, auxVars>>
nonHbVars == <<permVars, gateVars, chatVars, fsVars, skillVars, pulseVars, engVars, auxVars>>
nonChatVars == <<permVars, gateVars, hbVars, fsVars, skillVars, pulseVars, engVars, auxVars>>
nonFsVars == <<permVars, gateVars, hbVars, chatVars, skillVars, pulseVars, engVars, auxVars>>
nonSkillVars == <<permVars, gateVars, hbVars, chatVars, fsVars, pulseVars, engVars, auxVars>>

nonEngVars == <<permVars, gateVars, hbVars, chatVars, fsVars, skillVars, pulseVars, auxVars>>

vars == <<permVars, gateVars, hbVars, chatVars, fsVars, skillVars, pulseVars, engVars, auxVars>>

-----------------------------------------------------------------------------
(* Permission engine: machina_permissions.py                               *)

ALLOW == "allow"
ASK == "ask"
DENY == "deny"
LEVELS == {ALLOW, ASK, DENY}

MODES == {"open", "standard", "locked", "supervised"}

\* The action identifiers the model dispatches.
AID_FILE_READ == "AID.FILE.READ.v1"
AID_FILE_WRITE == "AID.FILE.WRITE.v1"
AID_SHELL_EXEC == "AID.SHELL.EXEC.v1"
AID_NET_HTTP_GET == "AID.NET.HTTP_GET.v1"
AID_GENESIS_WRITE_FILE == "AID.GENESIS.WRITE_FILE.v1"
AID_GENESIS_COMPILE_SHARED == "AID.GENESIS.COMPILE_SHARED.v1"
AID_GENESIS_LOAD_PLUGIN == "AID.GENESIS.LOAD_PLUGIN.v1"
AID_CUSTOM == "AID.CUSTOM.TOOL.v1"

AIDS == {AID_FILE_READ, AID_FILE_WRITE, AID_SHELL_EXEC, AID_NET_HTTP_GET,
         AID_GENESIS_WRITE_FILE, AID_GENESIS_COMPILE_SHARED,
         AID_GENESIS_LOAD_PLUGIN, AID_CUSTOM}

\* Explicit default map, restricted to the modelled identifiers.
DEFAULT_PERMISSIONS ==
    (AID_FILE_READ :> ALLOW) @@ (AID_FILE_WRITE :> ALLOW) @@
    (AID_SHELL_EXEC :> ASK) @@ (AID_NET_HTTP_GET :> ASK) @@
    (AID_GENESIS_WRITE_FILE :> ALLOW) @@ (AID_GENESIS_COMPILE_SHARED :> ASK) @@
    (AID_GENESIS_LOAD_PLUGIN :> ASK)

\* Read-only identifiers, allowed even in locked mode.
READONLY_AIDS == {AID_FILE_READ}

\* _permission_from_side_effects
permission_from_side_effects(side_effects) ==
    IF side_effects = {} \/ side_effects = {"none"} THEN ALLOW
    ELSE IF side_effects \subseteq {"filesystem_read", "process_introspection", "gpu_probe"} THEN ALLOW
    ELSE ASK

\* The tools the manifest lists when it exists: the custom tool, which the
\* default map does not cover, and the shell tool, which it does.
MANIFEST_AIDS == {AID_CUSTOM, AID_SHELL_EXEC}

\* _load_manifest_permission_map
load_manifest_permission_map ==
    IF manifest = {"absent"} THEN <<>>
    ELSE [a \in MANIFEST_AIDS |-> permission_from_side_effects(manifest)]

\* _load_overrides: entries whose value is not a level are dropped.
load_overrides == [a \in {x \in AIDS : overrides[x] \in LEVELS} |-> overrides[a]]

\* A plausible slip: the session grants consulted before the mode.
check_permission_grants_first(aid) ==
    IF aid \in session_grants THEN ALLOW
    ELSE IF mode = "open" THEN ALLOW
    ELSE IF mode = "locked" THEN (IF aid \in READONLY_AIDS THEN ALLOW ELSE DENY)
    ELSE IF mode = "supervised" THEN (IF aid \in READONLY_AIDS THEN ALLOW ELSE ASK)
    ELSE IF aid \in DOMAIN load_overrides THEN load_overrides[aid]
    ELSE IF aid \in DOMAIN DEFAULT_PERMISSIONS THEN DEFAULT_PERMISSIONS[aid]
    ELSE IF aid \in DOMAIN load_manifest_permission_map THEN load_manifest_permission_map[aid]
    ELSE ASK

\* A plausible slip: the default map consulted before the overrides.
check_permission_defaults_first(aid) ==
    IF mode = "open" THEN ALLOW
    ELSE IF mode = "locked" THEN (IF aid \in READONLY_AIDS THEN ALLOW ELSE DENY)
    ELSE IF mode = "supervised" THEN (IF aid \in READONLY_AIDS THEN ALLOW ELSE ASK)
    ELSE IF aid \in session_grants THEN ALLOW
    ELSE IF aid \in DOMAIN DEFAULT_PERMISSIONS THEN DEFAULT_PERMISSIONS[aid]
    ELSE IF aid \in DOMAIN load_overrides THEN load_overrides[aid]
    ELSE IF aid \in DOMAIN load_manifest_permission_map THEN load_manifest_permission_map[aid]
    ELSE ASK

check_permission(aid) ==
    IF mode = "open" THEN ALLOW
    ELSE IF mode = "locked" THEN (IF aid \in READONLY_AIDS THEN ALLOW ELSE DENY)
    ELSE IF mode = "supervised" THEN (IF aid \in READONLY_AIDS THEN ALLOW ELSE ASK)
    ELSE IF aid \in session_grants THEN ALLOW
    ELSE IF aid \in DOMAIN load_overrides THEN load_overrides[aid]
    ELSE IF aid \in DOMAIN DEFAULT_PERMISSIONS THEN DEFAULT_PERMISSIONS[aid]
    ELSE IF aid \in DOMAIN load_manifest_permission_map THEN load_manifest_permission_map[aid]
    ELSE ASK

\* grant_session / revoke_session / clear_session_grants
MaxGrants == 1

\* The identifiers a session grant is issued for in the model.
GRANT_AIDS == {AID_SHELL_EXEC, AID_CUSTOM}

NoCall == <<>>

CallRec(op, aid, perm, ca, granted, result) ==
    [op |-> op, aid |-> aid, perm |-> perm, caller_approved |-> ca,
     granted |-> granted, result |-> result]

\* A plausible slip: revoke that leaves the grant in place.
revoke_session_keeps_grant(aid) ==
    /\ session_grants' = session_grants
    /\ lastCall' = <<CallRec("revoke", aid, check_permission(aid), FALSE, aid \in session_grants, "ok")>>
    /\ UNCHANGED <<permConfig, nonPermVars>>

grant_session(aid) ==
    /\ Cardinality(session_grants \cup {aid}) <= MaxGrants
    /\ session_grants' = session_grants \cup {aid}
    /\ lastCall' = <<CallRec("grant", aid, check_permission(aid), FALSE, aid \in session_grants, "ok")>>
    /\ UNCHANGED <<permConfig, nonPermVars>>

revoke_session(aid) ==
    /\ session_grants' = session_grants \ {aid}
    /\ lastCall' = <<CallRec("revoke", aid, check_permission(aid), FALSE, aid \in session_grants, "ok")>>
    /\ UNCHANGED <<permConfig, nonPermVars>>

clear_session_grants ==
    /\ session_grants # {}
    /\ session_grants' = {}
    /\ lastCall' = NoCall
    /\ UNCHANGED <<permConfig, nonPermVars>>

\* A caller asks the engine for the level of one identifier.
CheckPermissionCall(aid) ==
    /\ lastCall' = <<CallRec("check", aid, check_permission(aid), FALSE, aid \in session_grants, "ok")>>
    /\ UNCHANGED <<permConfig, session_grants, nonPermVars>>

-----------------------------------------------------------------------------
(* Tool dispatch: machina_dispatch_registry.py, machina_dispatch.py,       *)
(* machina_dispatch_exec.py, machina_autonomic/_autoapprove.py             *)

TOOL_ALIASES == ("run_shell" :> AID_SHELL_EXEC)

NAMES == AIDS \cup DOMAIN TOOL_ALIASES

resolve_alias(name) == IF name \in DOMAIN TOOL_ALIASES THEN TOOL_ALIASES[name] ELSE name

SAFE_ASK_AIDS_DEFAULT == {AID_NET_HTTP_GET}

is_autonomic_auto_approved_aid(aid) == autoApprove /\ aid \in SAFE_ASK_AIDS_DEFAULT

autonomic_approve_all_ask == approveAllAsk

\* What a handler that was entered returns: a plain result, a string that
\* starts with "error", an error text that does not (e.g. "compile error:"),
\* or nothing at all when dispatch refused before the handler.
HANDLER_OUTCOMES == {"ok", "error_prefixed", "error_text"}

\* A plausible slip: dispatch without the deny test.
run_machina_tool_without_deny(name, ca, outcome) ==
    LET aid == resolve_alias(name)
        perm == check_permission(aid)
    IN  IF perm = ASK /\ ~ca /\ ~autonomic_approve_all_ask
           /\ ~is_autonomic_auto_approved_aid(aid)
        THEN CallRec("tool", aid, perm, ca, aid \in session_grants, "requires_approval")
        ELSE CallRec("tool", aid, perm, ca, aid \in session_grants, outcome)

\* run_machina_tool: the result kind for one call.
run_machina_tool(name, ca, outcome) ==
    LET aid == resolve_alias(name)
        perm == check_permission(aid)
    IN  IF perm = DENY
        THEN CallRec("tool", aid, perm, ca, aid \in session_grants, "permission_denied")
        ELSE IF perm = ASK /\ ~ca /\ ~autonomic_approve_all_ask
                /\ ~is_autonomic_auto_approved_aid(aid)
        THEN CallRec("tool", aid, perm, ca, aid \in session_grants, "requires_approval")
        ELSE CallRec("tool", aid, perm, ca, aid \in session_grants, outcome)

\* The handler was entered (the action executed), whatever it returned.
Executed(rec) == rec.op = "tool" /\ rec.result \in HANDLER_OUTCOMES

\* result.lower().startswith("error"): the refusals of dispatch are such strings.
StartsWithError(rec) == rec.result \in {"error_prefixed", "permission_denied", "requires_approval"}

\* execute_intent, kind == "tool": the interactive layer always passes _caller_approved=True.
ExecuteIntentTool(name, outcome) ==
    /\ lastCall' = <<run_machina_tool(name, TRUE, outcome)>>
    /\ UNCHANGED <<permConfig, session_grants, nonPermVars>>

\* The autonomic engine (burst stimuli, self-questioning) calls run_machina_tool(aid, inputs).
AutonomicCall(name, outcome) ==
    /\ lastCall' = <<run_machina_tool(name, FALSE, outcome)>>
    /\ UNCHANGED <<permConfig, session_grants, nonPermVars>>

CHAIN_RECIPES ==
    ("create_tool" :> <<AID_GENESIS_WRITE_FILE, AID_GENESIS_COMPILE_SHARED, AID_GENESIS_LOAD_PLUGIN>>) @@
    ("analyze_file" :> <<AID_FILE_READ>>)

\* execute_chain: steps run in order through run_machina_tool (no caller
\* approval); the loop breaks after the first result that starts with "error".
RECURSIVE chain_steps(_, _, _)
chain_steps(recipe, outcomes, i) ==
    IF i > Len(recipe) THEN <<>>
    ELSE LET r == run_machina_tool(recipe[i], FALSE, outcomes[i])
         IN  IF StartsWithError(r) THEN <<r>>
             ELSE <<r>> \o chain_steps(recipe, outcomes, i + 1)

execute_chain(chain_name, outcomes) ==
    /\ Len(outcomes) = Len(CHAIN_RECIPES[chain_name])
    /\ lastCall' = chain_steps(CHAIN_RECIPES[chain_name], outcomes, 1)
    /\ UNCHANGED <<permConfig, session_grants, nonPermVars>>

OVERRIDE_CHOICES ==
    { [a \in AIDS |-> "none"],
      [a \in AIDS |-> IF a = AID_SHELL_EXEC THEN ALLOW ELSE "none"],
      [a \in AIDS |-> IF a = AID_FILE_READ THEN DENY ELSE IF a = AID_CUSTOM THEN "bogus" ELSE "none"] }

MANIFEST_CHOICES == {{"absent"}, {"none"}, {"network_io"}}

PermStart ==
    /\ mode \in MODES
    /\ session_grants = {}
    /\ overrides \in OVERRIDE_CHOICES
    /\ manifest \in MANIFEST_CHOICES
    /\ approveAllAsk \in BOOLEAN
    /\ autoApprove \in BOOLEAN
    /\ lastCall = NoCall

\* The defaults of a fresh process: standard mode, no overrides, both
\* autonomic switches at their default "1".
PermIdle ==
    /\ mode = "standard"
    /\ session_grants = {}
    /\ overrides = [a \in AIDS |-> "none"]
    /\ manifest = {"absent"}
    /\ approveAllAsk = TRUE
    /\ autoApprove = TRUE
    /\ lastCall = NoCall

GateIdle ==
    /\ baseline = [pass_count |-> 0, fail_count |-> 0, total |-> 0, error |-> FALSE]
    /\ gateLast = <<>>

MaxBeats == 5
MaxTurns == 3
MaxCycles == 2

BEATS == 1..MaxBeats
TURNS == 1..MaxTurns

\* The last turn talks in a second chat, the others share the first.
TurnChat(t) == IF t = MaxTurns THEN "chat2" ELSE "chat1"
CHATS == {"chat1", "chat2"}

HbIdle ==
    /\ tick_lock = FALSE
    /\ tick_thread = [b \in BEATS |-> "none"]
    /\ beats = 0

ChatIdle ==
    /\ chat_locks = [c \in CHATS |-> 0]
    /\ turn_pc = [t \in TURNS |-> "new"]
    /\ turn_cycles = [t \in TURNS |-> 0]
    /\ conversation_history = [c \in CHATS |-> <<>>]

\* MACHINA_ROOT, its work directory and a directory outside the root
MACHINA_ROOT == <<"srv">>
WORK == <<"srv", "work">>

FsIdle ==
    /\ fs_kind = (MACHINA_ROOT :> "dir") @@ (WORK :> "dir") @@
                 (<<"srv", "work", "sub">> :> "dir") @@ (<<"etc">> :> "dir")
    /\ fs_links = <<>>
    /\ fs_last = <<>>

SkillIdle ==
    /\ skills_stream = <<>>
    /\ skill_hash_cache = {}
    /\ cache_fresh = FALSE
    /\ skill_last = <<>>

MaxPulseTurns == 2
MaxPulseCycles == 2
MaxClock == 2

PTURNS == 1..MaxPulseTurns

NoAction == [kind |-> "none", aid |-> ""]
NoReq == [asked |-> FALSE, skipped |-> FALSE, id |-> 0]

PulseIdle ==
    /\ pending_approvals = <<>>
    /\ entry_approved = [t \in PTURNS |-> FALSE]
    /\ event_set = [t \in PTURNS |-> FALSE]
    /\ callbacks = {}
    /\ messages = {}
    /\ approval_clock = 1
    /\ p_pc = [t \in PTURNS |-> "idle"]
    /\ p_cycle = [t \in PTURNS |-> 0]
    /\ p_action = [t \in PTURNS |-> NoAction]
    /\ p_req = [t \in PTURNS |-> NoReq]
    /\ session_approved = [t \in PTURNS |-> {}]
    /\ approve_presses = {}
    /\ approved_msgs = {}
    /\ refused = {}
    /\ p_last = [t \in PTURNS |-> <<>>]

\* The engine starts well after the Unix epoch: a level_done of 0 is older
\* than every rate limit, as it is under a real clock.
Epoch == 2 * 3600

LEVEL_KEYS == {"test", "heal", "curiosity", "_burst"}

\* AutonomicEngine.__init__ at time t, no state file to restore
NewEngine(t) ==
    [last_activity |-> t,
     level_done |-> [k \in LEVEL_KEYS |-> 0],
     prev_hashes |-> <<>>,
     stasis |-> FALSE,
     stasis_entered |-> 0]

NoTick ==
    [start |-> 0, expired |-> FALSE, detected |-> FALSE, flag_l2 |-> FALSE,
     flag_l3 |-> FALSE, due |-> {}, ran |-> {}, touched |-> FALSE,
     burst |-> FALSE, burst_ran |-> {}]

EngIdle ==
    /\ eng_dev = FALSE
    /\ eng_now = Epoch
    /\ engine = NewEngine(Epoch)
    /\ mem_counts = 0
    /\ eng_ticks = 0
    /\ eng_touches = 0
    /\ stasis_since = 0
    /\ tick_rec = NoTick

\* Two turns of one chat; their execute loops may overlap (concurrent_updates).
LTURNS == {1, 2}
NoResult == "<none>"
NoStop == 0 - 2
NewLoop ==
    [pc |-> "idle", cycle |-> 0, elapsed |-> 0, last |-> NoResult, response |-> "",
     exit |-> "", recov |-> 0, stop_req |-> NoStop, dispatched |-> 0 - 1, late_start |-> FALSE]
LoopIdle ==
    /\ pulse_cancel = FALSE
    /\ xloop = [t \in LTURNS |-> NewLoop]
NewBurst ==
    [pc |-> "idle", dev |-> FALSE, start |-> 0, now |-> 0, last_activity |-> 0,
     stall_count |-> 0, exit |-> "", touch_seen |-> FALSE, late_turn |-> FALSE,
     late_action |-> FALSE]
BurstIdle == bsess = NewBurst
MaxAppends == 3
APPENDS == 1..MaxAppends
NoHolder == {}
StreamIdle ==
    /\ stream_file = <<>>
    /\ stream_lock = NoHolder
    /\ app_pc = [i \in APPENDS |-> "idle"]
    /\ rot = [pc |-> "idle", keep |-> <<>>, calls |-> 0]
    /\ lock_order = <<>>
    /\ evicted = <<>>
    /\ contended = FALSE
NewHygiene == [stream |-> <<>>, archive |-> <<>>, week |-> 0, appended |-> 0, clean |-> FALSE]
HygIdle == hyg = NewHygiene
\* the two places experience_record runs: a chat turn (event loop) and the
\* engine's tick thread
EMITTERS == {"chat", "engine"}
NewEmitter == [pc |-> "idle", existing |-> {}, new_suggestions |-> <<>>]
GenIdle == gen = [file |-> <<>>, em |-> [e \in EMITTERS |-> NewEmitter]]
HealIdle == heal = [now |-> 0, genesis_recent |-> <<>>, attempts |-> <<>>, refused |-> FALSE,
                    tested |-> FALSE]
\* the engine is constructed long after the epoch: 30 days
StartTime == 30 * 86400
NewCuriosity == [now |-> StartTime, last_run |-> 0, daily_count |-> 0, daily_reset_ts |-> 0,
                 starts |-> <<>>, skipped |-> FALSE]
CurIdle == curio = NewCuriosity
\* the generated codes of one run of the model, in the order of generation
MaxCodes == 3
GEN_CODES == 1 .. MaxCodes
SCRIPT_PATHS == {"curiosity_util.py", "genesis_skey.py"}
NoScript == 0 - 1
NewArtifacts == [scripts |-> [p \in SCRIPT_PATHS |-> NoScript], skills |-> <<>>,
                 verdict |-> [c \in GEN_CODES |-> "none"], made |-> 0]
ArtIdle == art = NewArtifacts
NewGraph == [entities |-> <<>>, relations |-> <<>>, loaded |-> FALSE, append_count |-> 0,
             ent_file |-> <<>>, rel_file |-> <<>>, shrunk |-> FALSE]
GraphIdle == graph = NewGraph
\* the static items of the pool, the knowledge quests a refresh can produce,
\* and the items dynamic generation can return
STATIC_ITEMS == {"s1"}
QUEST_SETS == {{"k1"}, {"k2"}}
DYN_ITEMS == {"d1", "s1"}
NoItem == "none"
stim_hash(item) == <<"md5", item>>
HashesOf(items) == { stim_hash(i) : i \in items }
NewStimulus == [pool |-> STATIC_ITEMS \cup {"k1"}, done_hashes |-> {}, done_file |-> <<>>,
                reset_count |-> 0, cooldown |-> "off", dyn_gen_count |-> 0,
                picked |-> NoItem, seen |-> HashesOf(STATIC_ITEMS \cup {"k1"})]
StimIdle == stim = NewStimulus
NewTickLog == [running |-> FALSE, slot |-> 0, log |-> <<>>, audit |-> <<>>, done |-> 0]
TkIdle == tk = NewTickLog
NoTurn == [act |-> "", raised |-> FALSE, flag |-> FALSE, stamped |-> FALSE, before |-> 0]
NewStall == [stall_count |-> 0, turns |-> 0, ended |-> FALSE, last |-> NoTurn]
StallIdle == stallv = NewStall
NoIntent == [tool |-> "", next |-> <<>>, src |-> ""]
NoPass == [stage |-> "", has_error |-> FALSE, marker |-> <<>>, queued |-> 0, via |-> ""]
NewCont == [pc |-> "idle", cycle |-> 0, intent |-> NoIntent, step_queue |-> <<>>,
            errors |-> 0, recov |-> 0, same |-> 0, prev |-> "", repair |-> 0,
            single |-> FALSE, multi |-> FALSE,
            err_run |-> 0, late |-> FALSE, last |-> NoPass]
ContIdle == cont = NewCont

NewRoute == [override |-> {},
             turn |-> [c \in {1, 2} |->
                          [pc |-> "idle", routed |-> FALSE, awaits |-> 0, exit |-> "", n |-> 0]]]
RouteIdle == route = NewRoute

NewSuppress == [fail_count |-> [k \in {"log_parser", "json_check", "unknown"} |-> 0],
                last |-> [kind |-> "", key |-> "", executed |-> FALSE, before |-> 0, audit |-> ""]]
SupIdle == sup = NewSuppress

NoKey == ""
NewMarks == [file |-> <<>>, picks |-> [k \in {"retry_http", "parse_log"} |-> 0],
             last |-> [picked |-> NoKey, how |-> ""]]
MarkIdle == marks = NewMarks

\* the engine starts with level_done empty (reflect: 0) at a time past every rate
NewReflect == [now |-> 300, level_done |-> 0, in_burst |-> FALSE, runs |-> 0,
               last |-> [at |-> 0, stale |-> FALSE, where |-> "", prev_at |-> 0, prev_stale |-> FALSE]]
ReflIdle == refl = NewReflect

NewAlerts == [queue |-> <<>>, sending |-> <<>>, retry |-> 0, emitted |-> 0,
              accepted |-> {}, cleared |-> {}, attempted |-> {}, delivered |-> {}]
AlertIdle == alerts = NewAlerts

NewBreaker == [now |-> 3600, genesis_recent |-> <<>>,
               category_fails |-> [c \in {"intent", "tool"} |-> 0],
               paused |-> [c \in {"intent", "tool"} |-> 0],
               last |-> [cat |-> "", attempted |-> FALSE, paused |-> FALSE, at |-> 0]]
BrkIdle == brk = NewBreaker

\* proposals submitted to one governor
MaxProposals == 2
NewGovernor == [state |-> [p \in 1..MaxProposals |-> "unknown"], changes |-> [p \in 1..MaxProposals |-> {}],
                submitted |-> 0, rejected |-> {},
                last |-> [op |-> "", pid |-> 0, before |-> "", after |-> ""]]
GovIdle == gov = NewGovernor

MoreIdle == HygIdle /\ GenIdle /\ HealIdle /\ CurIdle /\ ArtIdle /\ GraphIdle /\ StimIdle /\ TkIdle /\ StallIdle /\ ContIdle /\ RouteIdle /\ SupIdle /\ MarkIdle /\ ReflIdle /\ AlertIdle /\ BrkIdle /\ GovIdle
AuxIdle == LoopIdle /\ BurstIdle /\ StreamIdle /\ MoreIdle

Idle2 == GateIdle /\ HbIdle /\ ChatIdle /\ FsIdle /\ SkillIdle /\ PulseIdle /\ EngIdle /\ AuxIdle

ChainOutcomes(chain_name) == [1..Len(CHAIN_RECIPES[chain_name]) -> HANDLER_OUTCOMES]

NextDispatch ==
    \/ \E aid \in GRANT_AIDS : grant_session(aid)
    \/ \E aid \in GRANT_AIDS : revoke_session(aid)
    \/ clear_session_grants
    \/ \E aid \in AIDS : CheckPermissionCall(aid)
    \/ \E name \in NAMES, o \in HANDLER_OUTCOMES : ExecuteIntentTool(name, o)
    \/ \E name \in NAMES, o \in HANDLER_OUTCOMES : AutonomicCall(name, o)
    \/ \E c \in DOMAIN CHAIN_RECIPES : \E os \in ChainOutcomes(c) : execute_chain(c, os)

InitDispatch == PermStart /\ Idle2

SpecDispatch == InitDispatch /\ [][NextDispatch]_vars

\* The level the mode alone prescribes for an identifier in the three
\* non-standard modes.
ModeLevel(m, aid) ==
    IF m = "open" THEN ALLOW
    ELSE IF aid \in READONLY_AIDS THEN ALLOW
    ELSE IF m = "locked" THEN DENY ELSE ASK

\* C1: dispatch never executes an action whose permission is ask unless a
\* session grant exists for it or the caller passed caller_approved; this is
\* stated for every executed call, the steps of a chain and the calls of the
\* autonomic engine included.
C1_AskNeedsApproval ==
    \A i \in DOMAIN lastCall :
        (Executed(lastCall[i]) /\ lastCall[i].perm = ASK)
            => (lastCall[i].caller_approved \/ lastCall[i].granted)

LockedShellCalls ==
    { i \in DOMAIN lastCall :
        lastCall[i].op = "tool" /\ lastCall[i].aid = AID_SHELL_EXEC /\ mode = "locked" }

\* C13 as stated: with the mode set to locked, a dispatch of the shell action
\* returns the approval-required error and no command is run.
C13_LockedShellApprovalRequired ==
    \A i \in LockedShellCalls :
        lastCall[i].result = "requires_approval" /\ ~Executed(lastCall[i])

\* C13 amended: with the mode set to locked, a dispatch of the shell action
\* returns the permission-denied error and no command is run, whoever calls
\* and whatever grant or override exists.
C13_LockedShellDenied ==
    \A i \in LockedShellCalls :
        lastCall[i].result = "permission_denied" /\ ~Executed(lastCall[i])

\* C13 witness: in locked mode the interactive layer dispatches the shell
\* action, approved by the caller and allowed by an override, and is refused.
C13_Witness ==
    \E i \in LockedShellCalls :
        /\ lastCall[i].caller_approved
        /\ overrides[AID_SHELL_EXEC] = ALLOW
        /\ lastCall[i].perm = DENY
        /\ lastCall[i].result = "permission_denied"

(***************************************************************************)
(* The permission engine on its own: every combination of override and     *)
(* manifest for the shell tool and the custom tool.                        *)
(***************************************************************************)
OVERRIDE_VALUES == {"none", ALLOW, DENY, "bogus"}

PERM_OVERRIDES ==
    { [a \in AIDS |-> IF a = AID_SHELL_EXEC THEN s ELSE IF a = AID_CUSTOM THEN c ELSE "none"] :
        s \in OVERRIDE_VALUES, c \in OVERRIDE_VALUES }

InitPerm ==
    /\ mode \in MODES
    /\ session_grants = {}
    /\ overrides \in PERM_OVERRIDES
    /\ manifest \in MANIFEST_CHOICES
    /\ approveAllAsk = TRUE
    /\ autoApprove = TRUE
    /\ lastCall = NoCall
    /\ Idle2

NextPerm ==
    \/ \E aid \in GRANT_AIDS : grant_session(aid)
    \/ \E aid \in GRANT_AIDS : revoke_session(aid)
    \/ clear_session_grants
    \/ \E aid \in AIDS : CheckPermissionCall(aid)

SpecPerm == InitPerm /\ [][NextPerm]_vars

\* The four sources of standard mode, in the order the specification gives,
\* each as the map of the identifiers it mentions.
StandardSources ==
    << [a \in session_grants |-> ALLOW],
       [a \in {x \in AIDS : overrides[x] \in LEVELS} |-> overrides[a]],
       DEFAULT_PERMISSIONS,
       IF manifest = {"absent"} THEN <<>>
       ELSE [a \in MANIFEST_AIDS |-> permission_from_side_effects(manifest)] >>

Mentions(aid) == { i \in DOMAIN StandardSources : aid \in DOMAIN StandardSources[i] }

FirstMention(aid) ==
    IF Mentions(aid) = {} THEN ASK
    ELSE StandardSources[CHOOSE i \in Mentions(aid) : \A j \in Mentions(aid) : i <= j][aid]

\* C11: in standard mode the permission of an action is the level given by
\* the first source that mentions it, in the order session grants,
\* environment overrides, explicit default map, manifest side-effects, and
\* ask when no source mentions it.
C11_FirstSourceDecides ==
    \A i \in DOMAIN lastCall :
        (lastCall[i].op = "check" /\ mode = "standard")
            => lastCall[i].perm = FirstMention(lastCall[i].aid)

\* C11 witness: a standard-mode check of the shell identifier, which the
\* override, the default map and the manifest all mention with the override
\* disagreeing with the two later sources, decided by the override.
C11_Witness ==
    \E i \in DOMAIN lastCall :
        /\ lastCall[i].op = "check"
        /\ mode = "standard"
        /\ lastCall[i].aid = AID_SHELL_EXEC
        /\ ~lastCall[i].granted
        /\ overrides[AID_SHELL_EXEC] = DENY
        /\ manifest = {"none"}
        /\ lastCall[i].perm = DENY

\* The resolution of an identifier when no session grant exists for it.
ResolutionWithoutGrant(aid) ==
    IF mode # "standard" THEN ModeLevel(mode, aid)
    ELSE IF overrides[aid] \in LEVELS THEN overrides[aid]
    ELSE IF aid \in DOMAIN DEFAULT_PERMISSIONS THEN DEFAULT_PERMISSIONS[aid]
    ELSE IF manifest # {"absent"} /\ aid \in MANIFEST_AIDS
    THEN permission_from_side_effects(manifest)
    ELSE ASK

\* C12: after revoke_session(aid), whether or not a grant existed, the
\* permission check of aid gives what it gives when no session grant exists
\* for aid.
C12_RevokeRestoresDefault ==
    \A i \in DOMAIN lastCall :
        lastCall[i].op = "revoke"
            => check_permission(lastCall[i].aid) = ResolutionWithoutGrant(lastCall[i].aid)

\* C12 witness: in standard mode the shell identifier was granted (its check
\* gave allow because of the grant), is revoked, and checks as ask again.
C12_Witness ==
    \E i \in DOMAIN lastCall :
        /\ lastCall[i].op = "revoke"
        /\ lastCall[i].aid = AID_SHELL_EXEC
        /\ lastCall[i].granted
        /\ lastCall[i].perm = ALLOW
        /\ mode = "standard"
        /\ check_permission(AID_SHELL_EXEC) = ASK

-----------------------------------------------------------------------------
(* RegressionGate: machina_gvu_tracker.py                                  *)

MaxTests == 2

E2eResult(p, f, t, e) == [pass_count |-> p, fail_count |-> f, total |-> t, error |-> e]

\* run_e2e: either the three counters the suite printed (passed and failed
\* tests are among the total), or an error result with pass_count 0, total 0.
E2E_OK == { E2eResult(p, f, t, FALSE) : p \in 0..MaxTests, f \in 0..MaxTests, t \in 0..MaxTests }
E2E_SANE == { r \in E2E_OK : r.pass_count + r.fail_count <= r.total }
E2E_ERROR == E2eResult(0, 0, 0, TRUE)
run_e2e == E2E_SANE \cup {E2E_ERROR}

\* _load_baseline default
NO_BASELINE == E2eResult(0, 0, 0, FALSE)

\* A plausible slip: the new result taken without the comparison.
accepted_baseline_unchecked(b, result) == result

\* accept: the baseline after accept(result)
accepted_baseline(b, result) ==
    IF result.pass_count >= b.pass_count THEN result ELSE b

\* ensure_baseline: the baseline after ensure_baseline() whose run returned result
ensured_baseline(b, result) ==
    IF b.total > 0 THEN b
    ELSE IF result.total > 0 /\ ~result.error THEN result
    ELSE b

\* A plausible slip: check itself failing open on an erred run.
gate_check_fail_open(b, result) ==
    IF b.total = 0 THEN TRUE ELSE result.error \/ result.pass_count >= b.pass_count

\* check
gate_check(b, result) ==
    IF b.total = 0 THEN TRUE ELSE result.pass_count >= b.pass_count

GateRec(op, before, after, accepted, gated, rolled_back) ==
    [op |-> op, before |-> before, after |-> after, accepted |-> accepted,
     gated |-> gated, rolled_back |-> rolled_back]

ensure_baseline(result) ==
    /\ baseline' = ensured_baseline(baseline, result)
    /\ gateLast' = <<GateRec("ensure_baseline", baseline, result, FALSE, FALSE, FALSE)>>
    /\ UNCHANGED nonGateVars

accept(result) ==
    /\ baseline' = accepted_baseline(baseline, result)
    /\ gateLast' = <<GateRec("accept", baseline, result, result.pass_count >= baseline.pass_count, FALSE, FALSE)>>
    /\ UNCHANGED nonGateVars

\* check(result), called on its own
check(result) ==
    /\ gateLast' = <<GateRec("check", baseline, result, gate_check(baseline, result), FALSE, FALSE)>>
    /\ UNCHANGED <<baseline, nonGateVars>>

\* What rollback_fn does when gate calls it: no function was passed, it
\* returns, or it raises.
ROLLBACKS == {"none", "ok", "raises"}

\* How a gate call ended: it returned its result or the exception of
\* rollback_fn left it, and whether it wrote an audit record of the failure.
GateEnd(rec, rollback, returned, leak_audited) ==
    rec @@ [rollback |-> rollback, returned |-> returned, leak_audited |-> leak_audited]

\* gate(apply_fn, rollback_fn): first is what ensure_baseline's run returned (if
\* it ran), after is the run that follows apply_fn.  rollback_fn is called
\* bare: when it raises, the exception leaves gate.
gate(first, after, rollback) ==
    LET b1 == ensured_baseline(baseline, first)
    IN  IF after.error
        THEN /\ baseline' = b1
             /\ gateLast' = <<GateEnd(GateRec("gate", baseline, after, TRUE, FALSE, FALSE), "not_called", TRUE, FALSE)>>
             /\ UNCHANGED nonGateVars
        ELSE IF gate_check(b1, after)
        THEN /\ baseline' = accepted_baseline(b1, after)
             /\ gateLast' = <<GateEnd(GateRec("gate", baseline, after, TRUE, TRUE, FALSE), "not_called", TRUE, FALSE)>>
             /\ UNCHANGED nonGateVars
        ELSE /\ baseline' = b1
             /\ gateLast' = <<GateEnd(GateRec("gate", baseline, after, FALSE, TRUE, rollback = "ok"),
                                      rollback, rollback # "raises", FALSE)>>
             /\ UNCHANGED nonGateVars

\* The callers in the engine (test-and-heal, heal level, curiosity): run the
\* suite, roll back on a regression, accept otherwise unless the run erred.
CallerRunE2e(e2e) ==
    IF ~e2e.error /\ ~gate_check(baseline, e2e)
    THEN /\ gateLast' = <<GateRec("caller", baseline, e2e, FALSE, TRUE, TRUE)>>
         /\ UNCHANGED <<baseline, nonGateVars>>
    ELSE IF ~e2e.error
    THEN /\ baseline' = accepted_baseline(baseline, e2e)
         /\ gateLast' = <<GateRec("caller", baseline, e2e, TRUE, TRUE, FALSE)>>
         /\ UNCHANGED nonGateVars
    ELSE /\ gateLast' = <<GateRec("caller", baseline, e2e, FALSE, FALSE, FALSE)>>
         /\ UNCHANGED <<baseline, nonGateVars>>

\* The baseline file holds what an earlier process saved.
GateStart ==
    /\ baseline \in E2E_SANE
    /\ gateLast = <<>>

NextGate ==
    \/ \E r \in run_e2e : ensure_baseline(r)
    \/ \E r \in run_e2e : accept(r)
    \/ \E r \in run_e2e : check(r)
    \/ \E r1 \in run_e2e, r2 \in run_e2e, rb \in ROLLBACKS : gate(r1, r2, rb)
    \/ \E r \in run_e2e : CallerRunE2e(r)

InitGate == GateStart /\ PermIdle /\ HbIdle /\ ChatIdle /\ FsIdle /\ SkillIdle /\ PulseIdle /\ EngIdle /\ AuxIdle

SpecGate == InitGate /\ [][NextGate]_vars

\* C5: the baseline's pass_count never decreases, whichever of
\* ensure_baseline, accept and gate (or a caller's run-then-accept) runs.
C5_BaselineMonotone == [][baseline'.pass_count >= baseline.pass_count]_vars

\* C5 witness: accept was offered a result with fewer passes than a non-zero
\* baseline and left the baseline alone.
C5_Witness ==
    \E i \in DOMAIN gateLast :
        /\ gateLast[i].op \in {"accept", "gate"}
        /\ gateLast[i].before.pass_count > 0
        /\ gateLast[i].after.pass_count < gateLast[i].before.pass_count
        /\ baseline = gateLast[i].before

\* C14 as stated: check(result) returns true if and only if the result has
\* at least as many passes as the baseline or the run erred.
C14_CheckTrueIffPassesOrErred ==
    \A i \in DOMAIN gateLast :
        gateLast[i].op = "check"
            => (gateLast[i].accepted <=>
                  (gateLast[i].after.pass_count >= gateLast[i].before.pass_count
                   \/ gateLast[i].after.error))

\* C14 amended: check(result) returns true if and only if no baseline is
\* set (its total is 0) or the result has at least as many passes as the
\* baseline; an erred run, whose pass count is 0, gets no other treatment.
C14_CheckTrueIffPasses ==
    \A i \in DOMAIN gateLast :
        gateLast[i].op = "check"
            => (gateLast[i].accepted <=>
                  (gateLast[i].before.total = 0
                   \/ gateLast[i].after.pass_count >= gateLast[i].before.pass_count))

\* C14 witness: check of an erred run against a baseline with passes
\* returned false.
C14_Witness ==
    \E i \in DOMAIN gateLast :
        /\ gateLast[i].op = "check"
        /\ gateLast[i].after.error
        /\ gateLast[i].before.pass_count > 0
        /\ ~gateLast[i].accepted

\* C15: when rollback_fn raises inside gate, gate records the leak in the
\* audit log and still returns its result to the caller.
C15_RollbackFailureContained ==
    \A i \in DOMAIN gateLast :
        (gateLast[i].op = "gate" /\ gateLast[i].rollback = "raises")
            => (gateLast[i].returned /\ gateLast[i].leak_audited)

-----------------------------------------------------------------------------
(* Autonomic heartbeat: telegram_bot.py                                    *)

\* A plausible slip: the thread started whether or not the lock was taken.
tick_lock_acquire_blind(locked) == TRUE

\* _tick_lock.acquire(blocking=False)
tick_lock_acquire(locked) == ~locked

\* autonomic_heartbeat: try the lock; on success start the tick thread.
autonomic_heartbeat ==
    /\ beats < MaxBeats
    /\ beats' = beats + 1
    /\ IF tick_lock_acquire(tick_lock)
       THEN /\ tick_lock' = TRUE
            /\ tick_thread' = [tick_thread EXCEPT ![beats + 1] = "started"]
       ELSE UNCHANGED <<tick_lock, tick_thread>>
    /\ UNCHANGED nonHbVars

\* _run_tick enters engine.tick()
RunTickBegin(b) ==
    /\ tick_thread[b] = "started"
    /\ tick_thread' = [tick_thread EXCEPT ![b] = "ticking"]
    /\ UNCHANGED <<tick_lock, beats, nonHbVars>>

\* engine.tick() returns or raises; the finally block releases the lock.
RunTickEnd(b, raised) ==
    /\ tick_thread[b] = "ticking"
    /\ tick_thread' = [tick_thread EXCEPT ![b] = IF raised THEN "failed" ELSE "finished"]
    /\ tick_lock' = FALSE
    /\ UNCHANGED <<beats, nonHbVars>>

NextHeartbeat ==
    \/ autonomic_heartbeat
    \/ \E b \in BEATS : RunTickBegin(b)
    \/ \E b \in BEATS, raised \in BOOLEAN : RunTickEnd(b, raised)

InitHeartbeat == HbIdle /\ PermIdle /\ GateIdle /\ ChatIdle /\ FsIdle /\ SkillIdle /\ PulseIdle /\ EngIdle /\ AuxIdle

SpecHeartbeat == InitHeartbeat /\ [][NextHeartbeat]_vars

TicksRunning == {b \in BEATS : tick_thread[b] \in {"started", "ticking"}}

\* C8: at most one autonomic tick() is executing at any time.
C8_OneTick == Cardinality(TicksRunning) <= 1

\* C8 witness: a heartbeat fired while a tick was running and started nothing.
C8_Witness ==
    \E b \in BEATS, c \in BEATS :
        /\ b < c /\ c <= beats
        /\ tick_thread[b] = "ticking"
        /\ tick_thread[c] = "none"

-----------------------------------------------------------------------------
(* Per-chat lock of handle_message: telegram_bot_pulse.py                  *)

\* A plausible slip: the lock entered without looking at its holder.
lock_is_free_blind(holder) == TRUE

\* asyncio.Lock: acquire proceeds only while nobody holds the lock.
lock_is_free(holder) == holder = 0

\* handle_message up to "async with _chat_locks[chat_id]" (first section)
EnterHistory(t) ==
    /\ turn_pc[t] = "new"
    /\ lock_is_free(chat_locks[TurnChat(t)])
    /\ chat_locks' = [chat_locks EXCEPT ![TurnChat(t)] = t]
    /\ turn_pc' = [turn_pc EXCEPT ![t] = "history"]
    /\ UNCHANGED <<turn_cycles, conversation_history, nonChatVars>>

\* the first locked section: append the user message, leave the lock
AppendUser(t) ==
    /\ turn_pc[t] = "history"
    /\ conversation_history' = [conversation_history EXCEPT
           ![TurnChat(t)] = Append(@, <<t, "user">>)]
    /\ chat_locks' = [chat_locks EXCEPT ![TurnChat(t)] = 0]
    /\ turn_pc' = [turn_pc EXCEPT ![t] = "phases"]
    /\ UNCHANGED <<turn_cycles, nonChatVars>>

\* one pulse cycle (intent, execute, continue), outside the lock
PulseCycle(t) ==
    /\ turn_pc[t] = "phases"
    /\ turn_cycles[t] < MaxCycles
    /\ turn_cycles' = [turn_cycles EXCEPT ![t] = @ + 1]
    /\ UNCHANGED <<chat_locks, turn_pc, conversation_history, nonChatVars>>

\* the cycles end; "async with _chat_locks[chat_id]" (second section)
EnterReply(t) ==
    /\ turn_pc[t] = "phases"
    /\ turn_cycles[t] >= 1
    /\ lock_is_free(chat_locks[TurnChat(t)])
    /\ chat_locks' = [chat_locks EXCEPT ![TurnChat(t)] = t]
    /\ turn_pc' = [turn_pc EXCEPT ![t] = "reply"]
    /\ UNCHANGED <<turn_cycles, conversation_history, nonChatVars>>

\* the second locked section: append the reply, leave the lock; the turn ends
AppendReply(t) ==
    /\ turn_pc[t] = "reply"
    /\ conversation_history' = [conversation_history EXCEPT
           ![TurnChat(t)] = Append(@, <<t, "assistant">>)]
    /\ chat_locks' = [chat_locks EXCEPT ![TurnChat(t)] = 0]
    /\ turn_pc' = [turn_pc EXCEPT ![t] = "done"]
    /\ UNCHANGED <<turn_cycles, nonChatVars>>

NextChat ==
    \/ \E t \in TURNS : EnterHistory(t)
    \/ \E t \in TURNS : AppendUser(t)
    \/ \E t \in TURNS : PulseCycle(t)
    \/ \E t \in TURNS : EnterReply(t)
    \/ \E t \in TURNS : AppendReply(t)

InitChat == ChatIdle /\ PermIdle /\ GateIdle /\ HbIdle /\ FsIdle /\ SkillIdle /\ PulseIdle /\ EngIdle /\ AuxIdle

SpecChat == InitChat /\ [][NextChat]_vars

InSection(t) == turn_pc[t] \in {"history", "reply"}
Running(t) == turn_pc[t] \in {"history", "phases", "reply"}

\* C7 as stated: two turns of one chat are serialized, the second does not run
\* its phases until the first has finished.
C7_TurnsSerialized ==
    \A a \in TURNS, b \in TURNS :
        (a # b /\ TurnChat(a) = TurnChat(b)) => ~(Running(a) /\ Running(b))

\* C7 amended: the per-chat lock serializes only the two history sections of
\* handle_message: no two turns of one chat are inside a locked section at once
\* and the section is entered only by the lock's holder.
C7_SectionsExclusive ==
    \A a \in TURNS :
        InSection(a) =>
            /\ chat_locks[TurnChat(a)] = a
            /\ \A b \in TURNS : (b # a /\ TurnChat(b) = TurnChat(a)) => ~InSection(b)

\* C7 witness: a turn is inside a locked section while another turn of the
\* same chat is in its phases and a turn of the other chat runs as well.
C7_Witness ==
    \E a \in TURNS, b \in TURNS, c \in TURNS :
        /\ a # b /\ TurnChat(a) = TurnChat(b) /\ TurnChat(c) # TurnChat(a)
        /\ InSection(a) /\ turn_pc[b] = "phases" /\ turn_cycles[b] >= 1
        /\ Running(c)

-----------------------------------------------------------------------------
(* The AID.FILE.WRITE.v1 handler: machina_dispatch_exec.py                 *)

MaxLinks == 1
MaxHops == 2

IsPrefix(p, q) == Len(p) <= Len(q) /\ SubSeq(q, 1, Len(p)) = p
dirname(p) == IF p = <<>> THEN <<>> ELSE SubSeq(p, 1, Len(p) - 1)
basename(p) == IF p = <<>> THEN <<>> ELSE <<p[Len(p)]>>
WithSuffix(p, sfx) == IF p = <<>> THEN <<sfx>> ELSE Append(dirname(p), p[Len(p)] \o sfx)

\* os.path.realpath: walk the components, following every symlink met; a
\* chain longer than MaxHops is a loop and is left unresolved.
RECURSIVE realpath(_, _, _)
realpath(cur, rest, hops) ==
    IF rest = <<>> THEN cur
    ELSE IF Head(rest) = "." THEN realpath(cur, Tail(rest), hops)
    ELSE IF Head(rest) = ".." THEN realpath(dirname(cur), Tail(rest), hops)
    ELSE LET nxt == Append(cur, Head(rest))
         IN  IF nxt \in DOMAIN fs_links
             THEN IF hops = 0 THEN nxt \o Tail(rest)
                  ELSE realpath(<<>>, fs_links[nxt] \o Tail(rest), hops - 1)
             ELSE realpath(nxt, Tail(rest), hops)

exists(p) == p \in DOMAIN fs_kind
HasChildren(p) == \E q \in DOMAIN fs_kind : q # p /\ IsPrefix(p, q)

\* The path argument: absolute or relative, as a sequence of names.
PathInput(a, comps) == [abs |-> a, comps |-> comps]
PATH_INPUTS ==
    { PathInput(FALSE, <<"a">>), PathInput(FALSE, <<"work", "a">>),
      PathInput(FALSE, <<"lnk", "a">>),
      PathInput(FALSE, <<".">>), PathInput(FALSE, <<"work", "..", "..", "etc", "a">>),
      PathInput(TRUE, <<"etc", "a">>), PathInput(TRUE, <<>>) }

\* lines 324-329: the path the handler will write, before the bounds check
safe_dir == realpath(<<>>, WORK, MaxHops)
full_path_of(inp) ==
    LET p1 == IF inp.abs THEN basename(inp.comps) ELSE inp.comps
        p2 == IF Len(p1) >= 2 /\ p1[1] = "work" THEN p1 ELSE <<"work">> \o p1
    IN  realpath(<<>>, MACHINA_ROOT \o p2, MaxHops)

\* os.makedirs(dirname, exist_ok=True): the missing ancestors, or failure when
\* an ancestor is not a directory
Ancestors(p) == { SubSeq(p, 1, n) : n \in 1..Len(p) }
makedirs_fails(d) ==
    \E a \in Ancestors(d) : (exists(a) /\ fs_kind[a] # "dir") \/ a \in DOMAIN fs_links
makedirs_new(d) == { a \in Ancestors(d) : ~exists(a) }

\* os.replace(src, dst) succeeds
rename_ok(kind, src, dst) ==
    IF ~exists(dst) THEN TRUE
    ELSE IF kind[src] = "dir" THEN kind[dst] = "dir" /\ ~HasChildren(dst)
    ELSE kind[dst] = "file"

\* the tree after os.replace(src, dst): src and everything below it moves
Renamed(kind, src, dst) ==
    LET moved == { q \in DOMAIN kind : IsPrefix(src, q) }
        target(q) == dst \o SubSeq(q, Len(src) + 1, Len(q))
        kept == { q \in DOMAIN kind : ~IsPrefix(src, q) /\ ~IsPrefix(dst, q) }
    IN  [ q \in kept \cup { target(m) : m \in moved } |->
            IF q \in kept THEN kind[q]
            ELSE kind[CHOOSE m \in moved : target(m) = q] ]

FsRec(result, root, touched) == [result |-> result, safe_dir |-> root, touched |-> touched]

\* The handler, lines 316-355
FileWrite(inp) ==
    LET root == safe_dir
        full == full_path_of(inp)
        par  == dirname(full)
        tmp  == WithSuffix(full, ".tmp")
        bak  == WithSuffix(full, ".bak")
        made == makedirs_new(par)
        k1   == [ q \in DOMAIN fs_kind \cup made |-> IF q \in made THEN "dir" ELSE fs_kind[q] ]
        k2   == [ q \in DOMAIN k1 \cup {tmp} |-> IF q = tmp THEN "file" ELSE k1[q] ]
        had  == full \in DOMAIN k2
        bakOk == had /\ rename_ok(fs_kind, full, bak)
        k3   == IF bakOk THEN Renamed(k2, full, bak) ELSE k2
        t3   == made \cup {tmp} \cup (IF bakOk THEN {full, bak} ELSE {})
        k4   == [ q \in (DOMAIN k3 \ {tmp}) \cup {full} |-> IF q = full THEN "file" ELSE k3[q] ]
        k4x  == [ q \in DOMAIN k3 \ {tmp} |-> k3[q] ]
    IN  IF ~IsPrefix(root, full)
        THEN /\ fs_last' = <<FsRec("error_escapes_sandbox", root, {})>>
             /\ UNCHANGED <<fs_kind, fs_links, nonFsVars>>
        ELSE IF makedirs_fails(par)
        THEN /\ fs_last' = <<FsRec("error_makedirs", root, {})>>
             /\ UNCHANGED <<fs_kind, fs_links, nonFsVars>>
        ELSE IF tmp \in DOMAIN fs_links \/ (exists(tmp) /\ fs_kind[tmp] = "dir")
        THEN /\ fs_last' = <<FsRec("error_open", root, made)>>
             /\ fs_kind' = k1
             /\ UNCHANGED <<fs_links, nonFsVars>>
        ELSE IF full \in DOMAIN k3 /\ k3[full] = "dir"
        THEN \* the final rename fails on a directory: tmp is unlinked, the error re-raised
             /\ fs_last' = <<FsRec("error_rename", root, t3)>>
             /\ fs_kind' = k4x
             /\ UNCHANGED <<fs_links, nonFsVars>>
        ELSE /\ fs_last' = <<FsRec("wrote", root, t3 \cup {full})>>
             /\ fs_kind' = k4
             /\ UNCHANGED <<fs_links, nonFsVars>>

\* The environment: somebody with access to the work directory plants or
\* removes a symlink between two calls.
LINK_SITES == { <<"srv", "work", "lnk">>, <<"srv", "work", "a">> }
LINK_TARGETS == { <<"etc">>, <<"etc", "a">>, <<"srv", "work", "sub">>, <<"srv", "work", "lnk">> }

AddSymlink(site, target) ==
    /\ ~exists(site)
    /\ site \notin DOMAIN fs_links
    /\ Cardinality(DOMAIN fs_links) < MaxLinks
    /\ fs_links' = [ q \in DOMAIN fs_links \cup {site} |-> IF q = site THEN target ELSE fs_links[q] ]
    /\ fs_last' = <<>>
    /\ UNCHANGED <<fs_kind, nonFsVars>>

RemoveSymlink(site) ==
    /\ site \in DOMAIN fs_links
    /\ fs_links' = [ q \in DOMAIN fs_links \ {site} |-> fs_links[q] ]
    /\ fs_last' = <<>>
    /\ UNCHANGED <<fs_kind, nonFsVars>>

NextFs ==
    \/ \E inp \in PATH_INPUTS : FileWrite(inp)
    \/ \E site \in LINK_SITES, target \in LINK_TARGETS : AddSymlink(site, target)
    \/ \E site \in LINK_SITES : RemoveSymlink(site)

InitFs == FsIdle /\ PermIdle /\ GateIdle /\ HbIdle /\ ChatIdle /\ SkillIdle /\ PulseIdle /\ EngIdle /\ AuxIdle

SpecFs == InitFs /\ [][NextFs]_vars

\* C2: the file-write handler never creates or modifies a file outside the
\* sandbox root it computed (the root after symlink resolution).
C2_WritesInsideSandbox ==
    \A i \in DOMAIN fs_last :
        \A w \in fs_last[i].touched : IsPrefix(fs_last[i].safe_dir, w)

-----------------------------------------------------------------------------
(* Writers of the skills stream: machina_learning.py, machina_dispatch.py, *)
(* machina_gvu.py, machina_autonomic/_engine_levels.py, _stimulus.py,      *)
(* _engine_ops.py                                                          *)

MaxSkills == 3
CacheTail == 2

CODES == {"code_a", "code_b"}

\* hashlib.sha256(code.encode()).hexdigest(): distinct codes, distinct digests
code_hash(code) == <<"sha256", code>>

\* A record of the stream; has_hash says whether it carries a code_hash field
\* (skill_record writes none).
SkillRec(code, has_hash, writer) == [code |-> code, has_hash |-> has_hash, writer |-> writer]

StreamHashes(stream) == { code_hash(stream[i].code) : i \in DOMAIN stream }
StoredHashes(stream) == { code_hash(stream[i].code) : i \in {j \in DOMAIN stream : stream[j].has_hash} }
LastLines(stream, n) == IF Len(stream) <= n THEN stream ELSE SubSeq(stream, Len(stream) - n + 1, Len(stream))

WriteRec(writer, code, wrote) ==
    [writer |-> writer, code |-> code, wrote |-> wrote,
     dup |-> wrote /\ code_hash(code) \in StreamHashes(skills_stream)]

\* _refresh_skill_hash_cache: at most every 60 s, from the last lines of the file
refreshed_cache ==
    IF cache_fresh \/ skills_stream = <<>> THEN skill_hash_cache
    ELSE StreamHashes(LastLines(skills_stream, CacheTail))

\* execute_intent auto-record: _should_record_skill, then skill_record
AutoRecord(code, result_ok) ==
    /\ Len(skills_stream) < MaxSkills
    /\ LET cache == refreshed_cache
           fresh == code_hash(code) \notin cache
       IN  IF ~result_ok
           THEN /\ skill_last' = <<WriteRec("dispatch", code, FALSE)>>
                /\ UNCHANGED <<skills_stream, skill_hash_cache, cache_fresh>>
           ELSE /\ cache_fresh' = TRUE
                /\ skill_hash_cache' = cache \cup {code_hash(code)}
                /\ skills_stream' = IF fresh THEN Append(skills_stream, SkillRec(code, FALSE, "dispatch"))
                                    ELSE skills_stream
                /\ skill_last' = <<WriteRec("dispatch", code, fresh)>>
    /\ UNCHANGED nonSkillVars

\* 60 s pass since the last refresh
CacheExpires ==
    /\ cache_fresh
    /\ cache_fresh' = FALSE
    /\ skill_last' = <<>>
    /\ UNCHANGED <<skills_stream, skill_hash_cache, nonSkillVars>>

\* SelfHealer.attempt_heal: skill_record on success
HealerRecord(code) ==
    /\ Len(skills_stream) < MaxSkills
    /\ skills_stream' = Append(skills_stream, SkillRec(code, FALSE, "healer"))
    /\ skill_last' = <<WriteRec("healer", code, TRUE)>>
    /\ UNCHANGED <<skill_hash_cache, cache_fresh, nonSkillVars>>

\* rollback_artifact: the records carrying this code_hash are removed
RECURSIVE without_hash(_, _)
without_hash(stream, h) ==
    IF stream = <<>> THEN <<>>
    ELSE IF Head(stream).has_hash /\ code_hash(Head(stream).code) = h
         THEN without_hash(Tail(stream), h)
         ELSE <<Head(stream)>> \o without_hash(Tail(stream), h)

\* do_heal: the generated script ran; record it, then the regression gate
do_heal(code, regression) ==
    /\ Len(skills_stream) < MaxSkills
    /\ LET written == Append(skills_stream, SkillRec(code, TRUE, "heal_level"))
       IN  skills_stream' = IF regression THEN without_hash(written, code_hash(code)) ELSE written
    /\ skill_last' = <<WriteRec("heal_level", code, TRUE)>>
    /\ UNCHANGED <<skill_hash_cache, cache_fresh, nonSkillVars>>

\* CuriosityDriver: _relevance_gate (novelty test on the code_hash field),
\* execute_goal (regression gate, then the record)
execute_goal(code, regression) ==
    /\ Len(skills_stream) < MaxSkills
    /\ LET pass == code_hash(code) \notin StoredHashes(skills_stream) /\ ~regression
       IN  /\ skills_stream' = IF pass THEN Append(skills_stream, SkillRec(code, TRUE, "curiosity"))
                               ELSE skills_stream
           /\ skill_last' = <<WriteRec("curiosity", code, pass)>>
    /\ UNCHANGED <<skill_hash_cache, cache_fresh, nonSkillVars>>

NextSkills ==
    \/ \E code \in CODES, ok \in BOOLEAN : AutoRecord(code, ok)
    \/ CacheExpires
    \/ \E code \in CODES : HealerRecord(code)
    \/ \E code \in CODES, regression \in BOOLEAN : do_heal(code, regression)
    \/ \E code \in CODES, regression \in BOOLEAN : execute_goal(code, regression)

InitSkills == SkillIdle /\ PermIdle /\ GateIdle /\ HbIdle /\ ChatIdle /\ FsIdle /\ PulseIdle /\ EngIdle /\ AuxIdle

SpecSkills == InitSkills /\ [][NextSkills]_vars

\* C6: whenever a skill record is written, no earlier record of the stream has
\* the same code_hash, whichever writer wrote it.
C6_NoDuplicateSkill ==
    \A i \in DOMAIN skill_last : skill_last[i].wrote => ~skill_last[i].dup

-----------------------------------------------------------------------------
(* Pulse turn, permission pre-check and approval round trip:               *)
(* telegram_bot_pulse.py, telegram_bot_handlers.py                         *)

\* The actions an intent may carry in the model.
PULSE_ACTIONS ==
    { [kind |-> "tool", aid |-> AID_SHELL_EXEC],
      [kind |-> "tool", aid |-> AID_FILE_READ],
      [kind |-> "chain", aid |-> ""] }

BUTTONS == {"a", "A", "d"}

Without(f, k) == [ x \in DOMAIN f \ {k} |-> f[x] ]
With(f, k, v) == [ x \in DOMAIN f \cup {k} |-> IF x = k THEN v ELSE f[x] ]

\* request_approval, after the wait: pending_approvals.pop(id, {}).get("approved", False)
approval_result(id) ==
    IF id \in DOMAIN pending_approvals THEN entry_approved[pending_approvals[id]] ELSE FALSE

\* handle_message reaches the execute loop with an intent (cycle 0)
StartTurn(t, a) ==
    /\ p_pc[t] = "idle"
    /\ p_pc' = [p_pc EXCEPT ![t] = "precheck"]
    /\ p_cycle' = [p_cycle EXCEPT ![t] = 1]
    /\ p_action' = [p_action EXCEPT ![t] = a]
    /\ UNCHANGED <<p_req, session_approved, p_last, approvalVars, ghostVars, permVars,
                   gateVars, hbVars, chatVars, fsVars, skillVars, engVars, auxVars>>

\* The permission pre-check of one cycle (lines 361-386 of the pulse) with
\* _check_action_permissions and the first half of request_approval.
PreCheck(t, send_ok) ==
    /\ p_pc[t] = "precheck"
    /\ LET a    == p_action[t]
           aid  == resolve_alias(a.aid)
           perm == check_permission(aid)
           id   == approval_clock
       IN  IF a.aid \in session_approved[t]
           THEN /\ p_pc' = [p_pc EXCEPT ![t] = "dispatch"]
                /\ p_req' = [p_req EXCEPT ![t] = [asked |-> FALSE, skipped |-> TRUE, id |-> 0]]
                /\ UNCHANGED <<session_approved, approvalVars, ghostVars>>
           ELSE IF a.kind # "tool" \/ perm = ALLOW
           THEN /\ p_pc' = [p_pc EXCEPT ![t] = "dispatch"]
                /\ p_req' = [p_req EXCEPT ![t] = NoReq]
                /\ session_approved' = [session_approved EXCEPT ![t] = @ \cup {a.aid}]
                /\ UNCHANGED <<approvalVars, ghostVars>>
           ELSE IF perm = DENY
           THEN /\ p_pc' = [p_pc EXCEPT ![t] = "done"]
                /\ p_req' = [p_req EXCEPT ![t] = NoReq]
                /\ UNCHANGED <<session_approved, approvalVars, ghostVars>>
           ELSE IF send_ok
           THEN /\ pending_approvals' = With(pending_approvals, id, t)
                /\ entry_approved' = [entry_approved EXCEPT ![t] = FALSE]
                /\ event_set' = [event_set EXCEPT ![t] = FALSE]
                /\ messages' = messages \cup {[turn |-> t, cycle |-> p_cycle[t], id |-> id]}
                /\ p_pc' = [p_pc EXCEPT ![t] = "waiting"]
                /\ p_req' = [p_req EXCEPT ![t] = [asked |-> TRUE, skipped |-> FALSE, id |-> id]]
                /\ UNCHANGED <<callbacks, approval_clock, session_approved, ghostVars>>
           ELSE /\ pending_approvals' = Without(pending_approvals, id)
                /\ refused' = refused \cup {<<t, p_cycle[t]>>}
                /\ p_pc' = [p_pc EXCEPT ![t] = "done"]
                /\ p_req' = [p_req EXCEPT ![t] = [asked |-> TRUE, skipped |-> FALSE, id |-> id]]
                /\ UNCHANGED <<entry_approved, event_set, callbacks, messages, approval_clock,
                               session_approved, approve_presses, approved_msgs>>
    /\ UNCHANGED <<p_cycle, p_action, p_last, permVars, gateVars, hbVars, chatVars, fsVars, skillVars, engVars, auxVars>>

\* approval_callback up to its edit_message_text: the user pressed a button of
\* message m; the entry stored under the message's id is marked.
approval_callback(m, btn) ==
    /\ m \in messages
    /\ messages' = messages \ {m}
    /\ IF m.id \in DOMAIN pending_approvals
       THEN LET owner == pending_approvals[m.id]
                aid   == resolve_alias(p_action[owner].aid)
            IN  /\ entry_approved' = [entry_approved EXCEPT ![owner] = (btn \in {"a", "A"})]
                /\ callbacks' = callbacks \cup {owner}
                /\ session_grants' = IF btn \in {"a", "A"} THEN session_grants \cup {aid}
                                     ELSE session_grants
                /\ approve_presses' = IF btn \in {"a", "A"} THEN approve_presses \cup {m.id}
                                      ELSE approve_presses
                /\ approved_msgs' = IF btn \in {"a", "A"} THEN approved_msgs \cup {<<m.turn, m.cycle>>}
                                    ELSE approved_msgs
       ELSE UNCHANGED <<entry_approved, callbacks, session_grants, approve_presses, approved_msgs>>
    /\ UNCHANGED <<pending_approvals, event_set, approval_clock, refused, turnVars,
                   permConfig, lastCall, gateVars, hbVars, chatVars, fsVars, skillVars, engVars, auxVars>>

\* approval_callback, last line: entry["event"].set()
CallbackSetsEvent(owner) ==
    /\ owner \in callbacks
    /\ callbacks' = callbacks \ {owner}
    /\ event_set' = [event_set EXCEPT ![owner] = TRUE]
    /\ UNCHANGED <<pending_approvals, entry_approved, messages, approval_clock, turnVars,
                   ghostVars, permVars, gateVars, hbVars, chatVars, fsVars, skillVars, engVars, auxVars>>

\* request_approval resumes after its event was set
ApprovalResumes(t) ==
    /\ p_pc[t] = "waiting"
    /\ event_set[t]
    /\ pending_approvals' = Without(pending_approvals, p_req[t].id)
    /\ IF approval_result(p_req[t].id)
       THEN /\ p_pc' = [p_pc EXCEPT ![t] = "dispatch"]
            /\ session_approved' = [session_approved EXCEPT ![t] = @ \cup {p_action[t].aid}]
            /\ UNCHANGED refused
       ELSE /\ p_pc' = [p_pc EXCEPT ![t] = "done"]
            /\ refused' = refused \cup {<<t, p_cycle[t]>>}
            /\ UNCHANGED session_approved
    /\ UNCHANGED <<entry_approved, event_set, callbacks, messages, approval_clock,
                   p_cycle, p_action, p_req, p_last, approve_presses, approved_msgs,
                   permVars, gateVars, hbVars, chatVars, fsVars, skillVars, engVars, auxVars>>

\* request_approval: asyncio.TimeoutError
ApprovalTimesOut(t) ==
    /\ p_pc[t] = "waiting"
    /\ ~event_set[t]
    /\ pending_approvals' = Without(pending_approvals, p_req[t].id)
    /\ p_pc' = [p_pc EXCEPT ![t] = "done"]
    /\ refused' = refused \cup {<<t, p_cycle[t]>>}
    /\ UNCHANGED <<entry_approved, event_set, callbacks, messages, approval_clock,
                   p_cycle, p_action, p_req, session_approved, p_last,
                   approve_presses, approved_msgs,
                   permVars, gateVars, hbVars, chatVars, fsVars, skillVars, engVars, auxVars>>

DispatchRec(t, result) ==
    [cycle |-> p_cycle[t], kind |-> p_action[t].kind, aid |-> resolve_alias(p_action[t].aid),
     asked |-> p_req[t].asked, skipped |-> p_req[t].skipped, id |-> p_req[t].id,
     perm |-> check_permission(resolve_alias(p_action[t].aid)), result |-> result]

\* execute_intent on the approved actions; then the continue phase either
\* ends the turn or hands the next cycle an action.
DispatchCycle(t, next) ==
    /\ p_pc[t] = "dispatch"
    /\ p_last' = [p_last EXCEPT ![t] =
           <<DispatchRec(t, IF p_action[t].kind = "tool"
                            THEN run_machina_tool(p_action[t].aid, TRUE, "ok").result
                            ELSE "chain")>>]
    /\ IF next = NoAction \/ p_cycle[t] >= MaxPulseCycles
       THEN /\ p_pc' = [p_pc EXCEPT ![t] = "done"]
            /\ UNCHANGED <<p_cycle, p_action>>
       ELSE /\ p_pc' = [p_pc EXCEPT ![t] = "precheck"]
            /\ p_cycle' = [p_cycle EXCEPT ![t] = @ + 1]
            /\ p_action' = [p_action EXCEPT ![t] = next]
    /\ UNCHANGED <<p_req, session_approved, approvalVars, ghostVars,
                   permVars, gateVars, hbVars, chatVars, fsVars, skillVars, engVars, auxVars>>

\* 10 ms pass: the next request gets another id
ApprovalClockTick ==
    /\ approval_clock < MaxClock
    /\ approval_clock' = approval_clock + 1
    /\ UNCHANGED <<pending_approvals, entry_approved, event_set, callbacks, messages,
                   turnVars, ghostVars, permVars, gateVars, hbVars, chatVars, fsVars, skillVars, engVars, auxVars>>

NextPulse ==
    \/ \E t \in PTURNS, a \in PULSE_ACTIONS : StartTurn(t, a)
    \/ \E t \in PTURNS, send_ok \in BOOLEAN : PreCheck(t, send_ok)
    \/ \E m \in messages, btn \in BUTTONS : approval_callback(m, btn)
    \/ \E t \in PTURNS : CallbackSetsEvent(t)
    \/ \E t \in PTURNS : ApprovalResumes(t)
    \/ \E t \in PTURNS : ApprovalTimesOut(t)
    \/ \E t \in PTURNS, a \in PULSE_ACTIONS \cup {NoAction} : DispatchCycle(t, a)
    \/ ApprovalClockTick

PULSE_MODES == {"standard", "supervised", "locked"}

InitPulse ==
    /\ PulseIdle
    /\ mode \in PULSE_MODES
    /\ session_grants = {}
    /\ overrides = [a \in AIDS |-> "none"]
    /\ manifest = {"absent"}
    /\ approveAllAsk = TRUE
    /\ autoApprove = TRUE
    /\ lastCall = NoCall
    /\ GateIdle /\ HbIdle /\ ChatIdle /\ FsIdle /\ SkillIdle /\ EngIdle /\ AuxIdle

SpecPulse == InitPulse /\ [][NextPulse]_vars

AskDispatches(t) ==
    { p_last[t][i] : i \in { j \in DOMAIN p_last[t] :
          /\ p_last[t][j].kind = "tool"
          /\ (p_last[t][j].asked \/ p_last[t][j].perm = ASK) } }

\* C9 as stated: an action whose permission is ask is dispatched only after
\* the user pressed approve on the approval request issued for that very
\* action, and never after its request was denied or timed out.
C9_ApprovedOnOwnRequest ==
    \A t \in PTURNS : \A d \in AskDispatches(t) :
        /\ <<t, d.cycle>> \in approved_msgs
        /\ <<t, d.cycle>> \notin refused

\* What the round trip does guarantee: a tool action whose permission is ask
\* is dispatched only if its identifier was approved earlier in the same turn
\* or an approve press carrying the id of its own request was handled, and
\* never in a cycle in which its request was denied, timed out or unsent.
PulseApprovedByIdOrSession ==
    \A t \in PTURNS : \A d \in AskDispatches(t) :
        /\ (d.skipped /\ d.aid \in session_approved[t])
           \/ (d.asked /\ d.id \in approve_presses)
        /\ <<t, d.cycle>> \notin refused

(***************************************************************************)
(* Autonomic engine: tick(), touch() and the burst session                 *)
(* (machina_autonomic/_engine.py, _engine_burst.py, _engine_ops.py).       *)
(* Time is in seconds.  Of the level handlers the model keeps test, heal   *)
(* and curiosity, the ones stasis acts on, and the burst session.          *)
(***************************************************************************)
MaxEngTicks == 16
MaxTouches == 1
MaxWrites == 1
MaxBurstTurns == 1

_TIMINGS_NORMAL ==
    [heartbeat |-> 60, l2_idle |-> 300, l2_rate |-> 600, l3_idle |-> 600,
     l3_rate |-> 1800, l5_idle |-> 900, l5_rate |-> 1800, stasis_threshold |-> 6,
     stasis_curiosity_rate |-> 1800, burst_idle |-> 1800, burst_rate |-> 3600,
     burst_max_sec |-> 3600]

_TIMINGS_DEV ==
    [heartbeat |-> 30, l2_idle |-> 120, l2_rate |-> 600, l3_idle |-> 180,
     l3_rate |-> 600, l5_idle |-> 180, l5_rate |-> 600, stasis_threshold |-> 5,
     stasis_curiosity_rate |-> 600, burst_idle |-> 180, burst_rate |-> 600,
     burst_max_sec |-> 3600]

\* AutonomicEngine._t
timings(dev) == IF dev THEN _TIMINGS_DEV ELSE _TIMINGS_NORMAL

stasis_max_sec == 600

\* state_hash: the stream counts and the 10-minute time bucket; MD5 of the
\* key is modelled by the key itself (equal keys, equal hashes)
state_hash(counts, t) == <<counts, t \div 600>>

stasis_expired_late(e, t) ==
    e.stasis /\ e.stasis_entered # 0 /\ t - e.stasis_entered > stasis_max_sec

\* the auto-expiry test at the head of tick()
stasis_expired(e, t) ==
    e.stasis /\ e.stasis_entered # 0 /\ t - e.stasis_entered >= stasis_max_sec

expire(e, t) ==
    IF stasis_expired(e, t)
    THEN [e EXCEPT !.stasis = FALSE, !.stasis_entered = 0, !.prev_hashes = <<>>]
    ELSE e

keep_last(hs, n) == IF Len(hs) > n THEN SubSeq(hs, Len(hs) - n + 1, Len(hs)) ELSE hs

all_identical(hs) == Cardinality({ hs[i] : i \in DOMAIN hs }) = 1

\* stasis detection: append the hash, keep the last sth, flag when all equal
detect(e, t, h, sth) ==
    LET hs == keep_last(Append(e.prev_hashes, h), sth)
    IN  IF Len(hs) = sth /\ all_identical(hs) /\ ~e.stasis
        THEN [e EXCEPT !.prev_hashes = hs, !.stasis = TRUE, !.stasis_entered = t]
        ELSE [e EXCEPT !.prev_hashes = hs]

\* AutonomicEngine.touch (paused is never set, so it is left out)
touched(e, t) == [e EXCEPT !.last_activity = t, !.stasis = FALSE]

\* the idle and rate-limit part of a level gate
level_due(idle, since, idle_min, rate_min) == idle >= idle_min /\ since >= rate_min

level_gate_ignoring_stasis(flag, idle, since, idle_min, rate_min) ==
    level_due(idle, since, idle_min, rate_min)

\* the gate of level 2 (test) and level 3 (heal) in tick()
level_gate(flag, idle, since, idle_min, rate_min) ==
    ~flag /\ level_due(idle, since, idle_min, rate_min)

run_level(e, key, t) == [e EXCEPT !.level_done[key] = t]

\* the level 5 gate: a slower cadence in stasis, idle + rate otherwise
can_curiosity(e, idle, t, T) ==
    LET curiosity_due == t - e.level_done["curiosity"]
    IN  IF e.stasis
        THEN curiosity_due >= T.stasis_curiosity_rate
        ELSE idle >= T.l5_idle /\ curiosity_due >= T.l5_rate

CURIOSITY_OUTCOMES == {"unproductive", "productive"}

\* do_curiosity: a cycle that produced code clears stasis and the window
do_curiosity(e, outcome) ==
    IF outcome = "productive"
    THEN [e EXCEPT !.stasis = FALSE, !.prev_hashes = <<>>]
    ELSE e

\* pick_next_action, rates doubled to keep the factor 0.5 integral.  Test
\* (priority 5) and heal (priority 4) come first; every lower priority
\* (web, curiosity, reflect, self-question, stimulus) is "other".
pick_next_action(e, t, T, in_burst, l2_streak) ==
    LET rate_factor2 == IF in_burst THEN 1 ELSE 2
        l2_rf2 == IF in_burst /\ l2_streak >= 3 THEN rate_factor2 * 8 ELSE rate_factor2
        stasis_ok == (~e.stasis) \/ in_burst
    IN  IF stasis_ok /\ 2 * (t - e.level_done["test"]) >= T.l2_rate * l2_rf2
        THEN "test"
        ELSE IF stasis_ok /\ 2 * (t - e.level_done["heal"]) >= T.l3_rate * rate_factor2
        THEN "heal"
        ELSE "other"

\* One turn of the burst loop per call; b = [e, t, ran].  A turn lasts one
\* heartbeat period.  k is the number of turns left before the session
\* ends on its stall limit; is_cur tells whether an "other" turn is a
\* curiosity cycle, with the given outcome.
RECURSIVE burst_turns(_, _, _, _, _, _)
burst_turns(b, T, burst_start, k, is_cur, outcome) ==
    IF \/ b.t - burst_start >= T.burst_max_sec
       \/ b.t - b.e.last_activity < 30
       \/ b.t - b.e.last_activity < 60
       \/ k = 0
    THEN b
    ELSE LET action == pick_next_action(b.e, b.t, T, TRUE, 0)
             t2 == b.t + T.heartbeat
         IN  burst_turns([e |-> IF action \in {"test", "heal"}
                                THEN run_level(b.e, action, t2)
                                ELSE IF is_cur
                                THEN run_level(do_curiosity(b.e, outcome), "curiosity", t2)
                                ELSE b.e,
                          t |-> t2,
                          ran |-> b.ran \cup {action}],
                         T, burst_start, k - 1, is_cur, outcome)

\* autonomous_burst: the loop, then the finally block
autonomous_burst(e, t, T, k, is_cur, outcome) ==
    LET b == burst_turns([e |-> e, t |-> t, ran |-> {}], T, t, k, is_cur, outcome)
        e2 == run_level(b.e, "_burst", b.t)
    IN  [b EXCEPT !.e = IF e2.stasis
                        THEN [e2 EXCEPT !.stasis = FALSE, !.stasis_entered = 0,
                                        !.prev_hashes = <<>>]
                        ELSE e2]

burst_gate(idle, since, T) == idle >= T.burst_idle /\ since >= T.burst_rate

\* One tick() call, started by the heartbeat one period after the previous
\* call returned.  wrote: a memory stream grows during the call, after the
\* state hash was read.  mid_touch: touch() arrives from the chat handler
\* after tick() read the idle time and before its level 2 gate.
Tick(wrote, mid_touch, outcome, k, is_cur) ==
    /\ eng_ticks < MaxEngTicks
    /\ mid_touch => eng_touches < MaxTouches
    /\ wrote => mem_counts < MaxWrites
    /\ \E T \in {timings(eng_dev)} : \E now \in {eng_now + T.heartbeat} :
       \E e1 \in {expire(engine, now)} :
       \E e2 \in {detect(e1, now, state_hash(mem_counts, now), T.stasis_threshold)} :
       \E idle \in {now - e2.last_activity} :
       \E e3 \in {IF mid_touch THEN touched(e2, now) ELSE e2} :
       \E l2 \in {level_gate(e3.stasis, idle, now - e3.level_done["test"],
                             T.l2_idle, T.l2_rate)} :
       \E e4 \in {IF l2 THEN run_level(e3, "test", now) ELSE e3} :
       \E l3 \in {level_gate(e4.stasis, idle, now - e4.level_done["heal"],
                             T.l3_idle, T.l3_rate)} :
       \E e5 \in {IF l3 THEN run_level(e4, "heal", now) ELSE e4} :
       \E e6 \in {IF can_curiosity(e5, idle, now, T)
                  THEN run_level(do_curiosity(e5, outcome), "curiosity", now)
                  ELSE e5} :
       \E burst \in {burst_gate(idle, now - e6.level_done["_burst"], T)} :
       \E b \in {IF burst
                 THEN autonomous_burst(e6, now, T, k, is_cur, outcome)
                 ELSE [e |-> e6, t |-> now, ran |-> {}]} :
           /\ engine' = b.e
           /\ eng_now' = b.t
           /\ stasis_since' = IF e2.stasis /\ ~e1.stasis THEN now ELSE stasis_since
           /\ tick_rec' =
                [start |-> now,
                 expired |-> engine.stasis /\ ~e1.stasis,
                 detected |-> e2.stasis /\ ~e1.stasis,
                 flag_l2 |-> e3.stasis,
                 flag_l3 |-> e4.stasis,
                 due |-> { key \in {"test"} :
                             level_due(idle, now - e3.level_done["test"],
                                       T.l2_idle, T.l2_rate) }
                         \cup { key \in {"heal"} :
                             level_due(idle, now - e4.level_done["heal"],
                                       T.l3_idle, T.l3_rate) },
                 ran |-> { key \in {"test"} : l2 } \cup { key \in {"heal"} : l3 },
                 touched |-> mid_touch,
                 burst |-> burst,
                 burst_ran |-> b.ran]
    /\ mem_counts' = IF wrote THEN mem_counts + 1 ELSE mem_counts
    /\ eng_touches' = IF mid_touch THEN eng_touches + 1 ELSE eng_touches
    /\ eng_ticks' = eng_ticks + 1
    /\ UNCHANGED <<eng_dev, nonEngVars>>

\* A user message between two ticks: handle_message calls touch(); the turn
\* may append to the experience stream.
Touch(wrote) ==
    /\ eng_touches < MaxTouches
    /\ wrote => mem_counts < MaxWrites
    /\ engine' = touched(engine, eng_now)
    /\ eng_touches' = eng_touches + 1
    /\ mem_counts' = IF wrote THEN mem_counts + 1 ELSE mem_counts
    /\ UNCHANGED <<eng_dev, eng_now, eng_ticks, stasis_since, tick_rec, nonEngVars>>

NextEngine ==
    \/ \E wrote \in BOOLEAN, mid_touch \in BOOLEAN, outcome \in CURIOSITY_OUTCOMES,
          k \in 1..MaxBurstTurns, is_cur \in BOOLEAN :
            Tick(wrote, mid_touch, outcome, k, is_cur)
    \/ \E wrote \in BOOLEAN : Touch(wrote)

InitEngine ==
    /\ eng_dev \in BOOLEAN
    /\ eng_now = Epoch
    /\ engine = NewEngine(Epoch)
    /\ mem_counts = 0
    /\ eng_ticks = 0
    /\ eng_touches = 0
    /\ stasis_since = 0
    /\ tick_rec = NoTick
    /\ PermIdle /\ GateIdle /\ HbIdle /\ ChatIdle /\ FsIdle /\ SkillIdle /\ PulseIdle /\ AuxIdle

SpecEngine == InitEngine /\ [][NextEngine]_vars

TestHeal == {"test", "heal"}

\* C3 as stated: in every tick() call in which stasis is detected, neither
\* the test level nor the heal level runs, a burst session started by the
\* same call included.
C3_NoTestOrHealInStasisTick ==
    tick_rec.detected => (tick_rec.ran \cup tick_rec.burst_ran) \cap TestHeal = {}

\* C3 amended: the level 2 and level 3 gates of tick() run test and heal
\* only when the stasis flag is clear at the moment the gate is evaluated.
C3_GatesSkipWhileFlagSet ==
    /\ "test" \in tick_rec.ran => ~tick_rec.flag_l2
    /\ "heal" \in tick_rec.ran => ~tick_rec.flag_l3

\* a tick that detected stasis, found test idle- and rate-due at its level 2
\* gate with the flag set, and did not run it there
C3_Witness ==
    /\ tick_rec.detected
    /\ tick_rec.flag_l2
    /\ "test" \in tick_rec.due
    /\ "test" \notin tick_rec.ran

\* C4: while the stasis flag is set, the latest tick started less than
\* stasis_max_sec after the flag was set: the first tick that starts 600 s
\* or more after stasis was entered leaves the flag cleared.
C4_StasisBounded ==
    engine.stasis => tick_rec.start - stasis_since < stasis_max_sec

\* a tick that started 600 s or more after stasis was entered, found the
\* flag still set and cleared it by auto-expiry
C4_Witness ==
    /\ tick_rec.expired
    /\ tick_rec.start - stasis_since >= stasis_max_sec
    /\ ~engine.stasis

(***************************************************************************)
(* Execute loop of a pulse turn: telegram_bot_pulse.py handle_message,     *)
(* telegram_bot_handlers.py stop_command                                   *)
(***************************************************************************)

\* MACHINA_MAX_CYCLES (30 / 100 by default), kept small here
MAX_CYCLES == 3
\* MACHINA_PULSE_BUDGET_S of the production profile, in seconds
TOTAL_BUDGET == 600
\* MACHINA_PULSE_EMPTY_RECOVERY_MAX, clamped to 0..5 by the code
max_empty_recovery == 1

\* seconds an awaited phase (intent, dispatch and continue) may take
DURATIONS == {5, 300}
\* what execute_intent may return: an output, the shell's "(no output)",
\* or a text holding "no command"
CYCLE_RESULTS == {"out", "(no output)", "no command"}
PRECHECKS == {"ok", "invalid", "denied"}
CONTINUES == {"continue", "done"}

budget_remaining_of_total(elapsed) == TOTAL_BUDGET

budget_remaining(elapsed) ==
    IF TOTAL_BUDGET - elapsed > 0 THEN TOTAL_BUDGET - elapsed ELSE 0

\* after the loop: an empty response takes the last result, and an empty or
\* "(no output)" response is replaced by the conversational fallback
final_response(response, last) ==
    LET r == IF response = "" /\ last # NoResult THEN last ELSE response
    IN  IF r \in {"", "(no output)"} THEN "fallback" ELSE r

LoopExit(x, why, response) ==
    [x EXCEPT !.pc = "done", !.exit = why, !.response = final_response(response, x.last)]

LastOr(x, other) == IF x.last # NoResult THEN x.last ELSE other

\* top of cycle x.cycle up to the start of its dispatch: the for statement,
\* the budget guard, the cancel guard, the permission pre-check
cycle_top(x, cancel, pre) ==
    IF x.cycle >= MAX_CYCLES THEN LoopExit(x, "cycles", "")
    ELSE IF budget_remaining(x.elapsed) < 10 THEN LoopExit(x, "budget", LastOr(x, ""))
    ELSE IF cancel THEN LoopExit(x, "cancel", LastOr(x, ""))
    ELSE IF pre = "invalid" THEN LoopExit(x, "invalid", LastOr(x, "empty command"))
    ELSE IF pre = "denied" THEN LoopExit(x, "denied", "all denied")
    ELSE [x EXCEPT !.pc = "body", !.dispatched = x.cycle,
                   !.late_start = @ \/ TOTAL_BUDGET - x.elapsed < 10]

\* the cancel guard is reached, and clears the flag, only past the two guards before it
cancel_after_top(x, cancel) ==
    IF x.cycle < MAX_CYCLES /\ budget_remaining(x.elapsed) >= 10 THEN FALSE ELSE cancel

\* handle_message up to its first await: resets the chat's cancel flag.
\* Turns are numbered in their order of arrival.
LoopStart(t) ==
    /\ xloop[t].pc = "idle"
    /\ \A u \in LTURNS : u < t => xloop[u].pc # "idle"
    /\ pulse_cancel' = FALSE
    /\ xloop' = [xloop EXCEPT ![t] = [@ EXCEPT !.pc = "intent"]]
    /\ UNCHANGED <<permVars, gateVars, hbVars, chatVars, fsVars, skillVars, pulseVars, engVars, bsess, streamVars, moreVars>>

\* the intent (and plan) phase returns an action intent; cycle 0 begins
EnterLoop(t, d, pre) ==
    /\ xloop[t].pc = "intent"
    /\ \E x \in {[xloop[t] EXCEPT !.elapsed = @ + d]} :
          /\ xloop' = [xloop EXCEPT ![t] = cycle_top(x, pulse_cancel, pre)]
          /\ pulse_cancel' = cancel_after_top(x, pulse_cancel)
    /\ UNCHANGED <<permVars, gateVars, hbVars, chatVars, fsVars, skillVars, pulseVars, engVars, bsess, streamVars, moreVars>>

\* the rest of a cycle after its dispatch started: the result, the empty
\* command recovery, the continue decision and, on continue, the top of the
\* next cycle
FinishCycle(t, r, d, next, pre) ==
    /\ xloop[t].pc = "body"
    /\ \E x \in {[xloop[t] EXCEPT !.elapsed = @ + d]} :
          IF r = "no command" /\ ~(x.recov < max_empty_recovery
                                   /\ budget_remaining(x.elapsed) > 15 /\ next = "continue")
          THEN /\ xloop' = [xloop EXCEPT ![t] = LoopExit(x, "forced_done", LastOr(x, r))]
               /\ UNCHANGED pulse_cancel
          ELSE IF r # "no command" /\ next = "done"
          THEN /\ xloop' = [xloop EXCEPT ![t] =
                      LoopExit([x EXCEPT !.last = r, !.recov = 0], "done", r)]
               /\ UNCHANGED pulse_cancel
          ELSE \E y \in {IF r = "no command"
                         THEN [x EXCEPT !.recov = @ + 1, !.cycle = @ + 1]
                         ELSE [x EXCEPT !.last = r, !.recov = 0, !.cycle = @ + 1]} :
                  /\ xloop' = [xloop EXCEPT ![t] = cycle_top(y, pulse_cancel, pre)]
                  /\ pulse_cancel' = cancel_after_top(y, pulse_cancel)
    /\ UNCHANGED <<permVars, gateVars, hbVars, chatVars, fsVars, skillVars, pulseVars, engVars, bsess, streamVars, moreVars>>

\* /stop: sets the chat's flag.  Each turn that is running notes the cycle
\* it was in (-1 before its first cycle) when the first request came.
stop_command ==
    /\ pulse_cancel' = TRUE
    /\ xloop' = [t \in LTURNS |->
          IF xloop[t].pc \in {"intent", "body"} /\ xloop[t].stop_req = NoStop
          THEN [xloop[t] EXCEPT !.stop_req =
                   IF xloop[t].pc = "intent" THEN 0 - 1 ELSE xloop[t].cycle]
          ELSE xloop[t]]
    /\ UNCHANGED <<permVars, gateVars, hbVars, chatVars, fsVars, skillVars, pulseVars, engVars, bsess, streamVars, moreVars>>

NextLoop ==
    \/ \E t \in LTURNS : LoopStart(t)
    \/ \E t \in LTURNS, d \in DURATIONS, pre \in PRECHECKS : EnterLoop(t, d, pre)
    \/ \E t \in LTURNS, r \in CYCLE_RESULTS, d \in DURATIONS, n \in CONTINUES, pre \in PRECHECKS :
          FinishCycle(t, r, d, n, pre)
    \/ stop_command

InitLoop ==
    /\ LoopIdle /\ BurstIdle /\ StreamIdle /\ MoreIdle
    /\ PermIdle /\ GateIdle /\ HbIdle /\ ChatIdle /\ FsIdle /\ SkillIdle /\ PulseIdle /\ EngIdle

SpecLoop == InitLoop /\ [][NextLoop]_vars

BudgetExits == {"cycles", "budget"}

\* C16 as stated: a turn that leaves the loop because the cycles or the
\* wall-clock budget ran out, and has a result, replies with its last result.
C16_BudgetExitReturnsLast ==
    \A t \in LTURNS :
        (xloop[t].exit \in BudgetExits /\ xloop[t].last # NoResult)
            => xloop[t].response = xloop[t].last

\* C16: the execute loop starts at most MAX_CYCLES cycles, starts none once
\* the wall-clock budget is used up (nor in its last 10 seconds), and on the
\* cycle exit or the budget exit replies with the last result, unless there
\* is none or it is "(no output)", when the reply is the fallback.
C16_LoopWithinBudgets ==
    \A t \in LTURNS :
        /\ xloop[t].dispatched + 1 <= MAX_CYCLES
        /\ ~xloop[t].late_start
        /\ xloop[t].exit \in BudgetExits =>
              xloop[t].response =
                  (IF xloop[t].last \in {NoResult, "(no output)"}
                   THEN "fallback" ELSE xloop[t].last)

C16_Witness ==
    \E t, u \in LTURNS :
        /\ xloop[t].exit = "budget" /\ xloop[t].dispatched >= 0
        /\ xloop[t].response = "out" /\ xloop[t].last = "out"
        /\ xloop[u].exit = "cycles" /\ xloop[u].dispatched + 1 = MAX_CYCLES
        /\ xloop[u].response = "out"

\* C17: a turn that was running when /stop was requested starts no dispatch
\* in any cycle after the one the request came in.
C17_StopObservedAtNextCycle ==
    \A t \in LTURNS :
        xloop[t].stop_req # NoStop => xloop[t].dispatched <= xloop[t].stop_req

(***************************************************************************)
(* One burst session, turn by turn: _engine_burst.py autonomous_burst,     *)
(* _engine.py touch / idle_seconds, telegram_bot.py abort_check            *)
(***************************************************************************)

burst_stall_limit == 5

\* seconds an action of a turn may run
ACTION_DURATIONS == {598, 1798}
\* what pick_next_action hands the turn
PICKS == {"none", "level", "plain"}
\* seconds into a turn at which the chat handler calls touch(); NoTouch if it does not
NoTouch == 0 - 1
TOUCH_OFFSETS == {NoTouch, 0, 1}

burst_time_up_late(elapsed, max_sec) == elapsed > max_sec

\* the time guard at the top of a turn
burst_time_up(elapsed, max_sec) == elapsed >= max_sec

\* why the loop is left at the top of a turn, "" if it is not
burst_guard(b, max_sec) ==
    IF burst_time_up(b.now - b.start, max_sec) THEN "time"
    ELSE IF b.now - b.last_activity < 30 THEN "activity"
    ELSE IF b.now - b.last_activity < 60 THEN "abort"
    ELSE IF b.stall_count >= burst_stall_limit THEN "stall"
    ELSE ""

\* the heartbeat's tick() enters autonomous_burst: the engine has been idle
\* for burst_idle seconds at least
BurstStart(dev) ==
    /\ bsess.pc = "idle"
    /\ bsess' = [bsess EXCEPT !.pc = "top", !.dev = dev, !.start = Epoch, !.now = Epoch,
                              !.last_activity = Epoch - timings(dev).burst_idle]
    /\ UNCHANGED <<permVars, gateVars, hbVars, chatVars, fsVars, skillVars, pulseVars,
                   engVars, loopVars, streamVars, moreVars>>

\* one turn of the while loop; on a guard, the loop is left and the finally
\* block ends the session at the same time.  touch_off: a user message
\* arrives that many seconds after the turn's action or pause began.
BurstTurn(pick, d, productive, touch_off) ==
    /\ bsess.pc = "top"
    /\ \E max_sec \in {timings(bsess.dev).burst_max_sec} :
       \E why \in {burst_guard(bsess, max_sec)} :
          IF why # ""
          THEN /\ bsess' = [bsess EXCEPT !.pc = "done", !.exit = why]
               /\ pick = "none" /\ d = 598 /\ productive /\ touch_off = NoTouch
          ELSE IF pick = "none" /\ bsess.stall_count + 1 >= burst_stall_limit
          THEN /\ bsess' = [bsess EXCEPT !.pc = "done", !.exit = "no_action",
                                         !.stall_count = @ + 1]
               /\ d = 598 /\ productive /\ touch_off = NoTouch
          ELSE \E len \in {IF pick = "none" THEN 30 ELSE d + 2} :
               /\ pick = "none" => (d = 598 /\ productive)
               /\ pick = "level" => productive
               /\ bsess' = [bsess EXCEPT
                     !.now = @ + len,
                     !.stall_count = IF pick = "none" THEN @ + 1
                                     ELSE IF pick = "level" \/ productive THEN 0
                                     ELSE @ + 1,
                     !.last_activity = IF touch_off = NoTouch THEN @
                                       ELSE bsess.now + touch_off,
                     !.touch_seen = @ \/ touch_off # NoTouch,
                     !.late_turn = @ \/ bsess.now - bsess.start >= max_sec,
                     !.late_action = @ \/ (pick # "none" /\ bsess.touch_seen)]
    /\ UNCHANGED <<permVars, gateVars, hbVars, chatVars, fsVars, skillVars, pulseVars,
                   engVars, loopVars, streamVars, moreVars>>

NextBurst ==
    \/ \E dev \in BOOLEAN : BurstStart(dev)
    \/ \E pick \in PICKS, d \in ACTION_DURATIONS, productive \in BOOLEAN,
          touch_off \in TOUCH_OFFSETS : BurstTurn(pick, d, productive, touch_off)

InitBurst ==
    /\ BurstIdle /\ LoopIdle /\ StreamIdle /\ MoreIdle
    /\ PermIdle /\ GateIdle /\ HbIdle /\ ChatIdle /\ FsIdle /\ SkillIdle /\ PulseIdle /\ EngIdle

SpecBurst == InitBurst /\ [][NextBurst]_vars

\* C18 as stated: a session that has returned lasted burst_max_sec at most.
C18_ReturnsWithinMaxSec ==
    bsess.pc = "done" => bsess.now - bsess.start <= timings(bsess.dev).burst_max_sec

\* C18: no turn of a burst session (action or stall pause) starts once
\* burst_max_sec has passed since the session started; the session returns
\* at the top of the first turn after that.
C18_NoTurnStartsAfterMaxSec ==
    /\ ~bsess.late_turn
    /\ bsess.exit = "time" => bsess.now - bsess.start >= timings(bsess.dev).burst_max_sec

C18_Witness ==
    /\ bsess.pc = "done" /\ bsess.exit = "time"
    /\ bsess.now - bsess.start > timings(bsess.dev).burst_max_sec

\* C19: once the user was active during a burst session, the session starts
\* no further action.
C19_NoActionAfterActivity == ~bsess.late_action

(***************************************************************************)
(* One JSONL stream under concurrent writers: machina_shared.py            *)
(* _jsonl_append, machina_autonomic/_engine_ops.py rotate.  A line is      *)
(* written in two parts (a long line takes more than one write call).      *)
(***************************************************************************)

MaxRotations == 2
\* max_lines of the rotate call
KeepLines == 1
ROTATOR == MaxAppends + 1

flock_unchecked(holder) == TRUE

\* fcntl.flock(f, LOCK_EX) is granted when no other open file holds the lock
flock_free(holder) == holder = NoHolder

Terminators(f) == { k \in DOMAIN f : f[k][2] = 2 }

\* readlines(): lines end at a newline; a last line may lack it
NumLines(f) ==
    Cardinality(Terminators(f)) + (IF f # <<>> /\ f[Len(f)][2] # 2 THEN 1 ELSE 0)

\* length of lines[:-max_lines], in chunks
EvictLen(f, max_lines) ==
    CHOOSE k \in Terminators(f) :
        Cardinality({ j \in Terminators(f) : j <= k }) = NumLines(f) - max_lines

\* a write at the file position pos of a file opened r+
WriteAt(f, pos, data) ==
    [ k \in 1..(IF pos + Len(data) > Len(f) THEN pos + Len(data) ELSE Len(f)) |->
        IF k > pos /\ k <= pos + Len(data) THEN data[k - pos] ELSE f[k] ]

\* open(filepath, "a")
AppOpen(i) ==
    /\ app_pc[i] = "idle"
    /\ app_pc' = [app_pc EXCEPT ![i] = "opened"]
    /\ UNCHANGED <<stream_file, stream_lock, rot, lock_order, evicted, contended>>
    /\ UNCHANGED <<permVars, gateVars, hbVars, chatVars, fsVars, skillVars, pulseVars,
                   engVars, loopVars, bsess, moreVars>>

\* fcntl.flock(f, LOCK_EX) returns
AppLock(i) ==
    /\ app_pc[i] = "opened"
    /\ flock_free(stream_lock)
    /\ stream_lock' = stream_lock \cup {i}
    /\ app_pc' = [app_pc EXCEPT ![i] = "locked"]
    /\ lock_order' = Append(lock_order, i)
    /\ UNCHANGED <<stream_file, rot, evicted, contended>>
    /\ UNCHANGED <<permVars, gateVars, hbVars, chatVars, fsVars, skillVars, pulseVars,
                   engVars, loopVars, bsess, moreVars>>

\* f.write(line); f.flush(): each write call appends at the end of the file
AppWrite(i) ==
    /\ app_pc[i] \in {"locked", "half"}
    /\ stream_file' = Append(stream_file, <<i, IF app_pc[i] = "locked" THEN 1 ELSE 2>>)
    /\ app_pc' = [app_pc EXCEPT ![i] = IF @ = "locked" THEN "half" ELSE "written"]
    /\ UNCHANGED <<stream_lock, rot, lock_order, evicted, contended>>
    /\ UNCHANGED <<permVars, gateVars, hbVars, chatVars, fsVars, skillVars, pulseVars,
                   engVars, loopVars, bsess, moreVars>>

\* fcntl.flock(f, LOCK_UN); _jsonl_append returns
AppUnlock(i) ==
    /\ app_pc[i] = "written"
    /\ stream_lock' = stream_lock \ {i}
    /\ app_pc' = [app_pc EXCEPT ![i] = "done"]
    /\ UNCHANGED <<stream_file, rot, lock_order, evicted, contended>>
    /\ UNCHANGED <<permVars, gateVars, hbVars, chatVars, fsVars, skillVars, pulseVars,
                   engVars, loopVars, bsess, moreVars>>

\* rotate: open(filepath, "r+")
RotOpen ==
    /\ rot.pc = "idle"
    /\ rot.calls < MaxRotations
    /\ rot' = [rot EXCEPT !.pc = "opened", !.calls = @ + 1]
    /\ UNCHANGED <<stream_file, stream_lock, app_pc, lock_order, evicted, contended>>
    /\ UNCHANGED <<permVars, gateVars, hbVars, chatVars, fsVars, skillVars, pulseVars,
                   engVars, loopVars, bsess, moreVars>>

\* rotate: flock, readlines; returns (and unlocks) when there is nothing to evict
RotLockRead ==
    /\ rot.pc = "opened"
    /\ flock_free(stream_lock)
    /\ IF NumLines(stream_file) <= KeepLines
       THEN /\ rot' = [rot EXCEPT !.pc = "idle"]
            /\ UNCHANGED <<stream_lock, evicted>>
       ELSE \E n \in {EvictLen(stream_file, KeepLines)} :
            /\ rot' = [rot EXCEPT !.pc = "read",
                                  !.keep = SubSeq(stream_file, n + 1, Len(stream_file))]
            /\ evicted' = evicted \o SubSeq(stream_file, 1, n)
            /\ stream_lock' = stream_lock \cup {ROTATOR}
    /\ UNCHANGED <<stream_file, app_pc, lock_order, contended>>
    /\ UNCHANGED <<permVars, gateVars, hbVars, chatVars, fsVars, skillVars, pulseVars,
                   engVars, loopVars, bsess, moreVars>>

\* rotate: f.seek(0); f.truncate()
RotTruncate ==
    /\ rot.pc = "read"
    /\ stream_file' = <<>>
    /\ rot' = [rot EXCEPT !.pc = "truncated"]
    /\ contended' = (contended \/ \E i \in APPENDS : app_pc[i] = "opened")
    /\ UNCHANGED <<stream_lock, app_pc, lock_order, evicted>>
    /\ UNCHANGED <<permVars, gateVars, hbVars, chatVars, fsVars, skillVars, pulseVars,
                   engVars, loopVars, bsess, moreVars>>

\* rotate: the kept lines are written from position 0, flushed, and the lock released
RotWriteUnlock ==
    /\ rot.pc = "truncated"
    /\ stream_file' = WriteAt(stream_file, 0, rot.keep)
    /\ stream_lock' = stream_lock \ {ROTATOR}
    /\ rot' = [rot EXCEPT !.pc = "idle", !.keep = <<>>]
    /\ UNCHANGED <<app_pc, lock_order, evicted, contended>>
    /\ UNCHANGED <<permVars, gateVars, hbVars, chatVars, fsVars, skillVars, pulseVars,
                   engVars, loopVars, bsess, moreVars>>

NextStream ==
    \/ \E i \in APPENDS : AppOpen(i)
    \/ \E i \in APPENDS : AppLock(i)
    \/ \E i \in APPENDS : AppWrite(i)
    \/ \E i \in APPENDS : AppUnlock(i)
    \/ RotOpen
    \/ RotLockRead
    \/ RotTruncate
    \/ RotWriteUnlock

InitStream ==
    /\ StreamIdle /\ LoopIdle /\ BurstIdle /\ MoreIdle
    /\ PermIdle /\ GateIdle /\ HbIdle /\ ChatIdle /\ FsIdle /\ SkillIdle /\ PulseIdle /\ EngIdle

SpecStream == InitStream /\ [][NextStream]_vars

\* what the stream has held, oldest first: the evicted part, then the file
StreamHistory == evicted \o stream_file

MaxRecords == 4
MaxWeeks == 4
\* max_lines of rotate for the experience stream (2000 in the code)
RotateMax == 2

SUCCESS_FIELDS == {"yes", "no", "absent"}

\* ten times the quality factor of trust_score
quality10(rec) ==
    IF rec.success = "yes" THEN 10 ELSE IF rec.success = "no" THEN 3 ELSE 5

\* trust_score(entry) < 0.1, with recency = 2 ^ (-age_days / 7)
trust_low(rec, week) == quality10(rec) < 2 ^ (week - rec.week)

\* the trust prune of do_hygiene: entries of trust below 0.1 are dropped
trust_prune(stream, week) ==
    LET keep(rec) == ~trust_low(rec, week)
    IN  SelectSeq(stream, keep)

\* rotate(filepath, max_lines) as [stream, archive]
rotate(stream, archive, max_lines, archive_ok) ==
    IF Len(stream) <= max_lines
    THEN [stream |-> stream, archive |-> archive]
    ELSE [stream |-> SubSeq(stream, Len(stream) - max_lines + 1, Len(stream)),
          archive |-> IF archive_ok
                      THEN archive \o SubSeq(stream, 1, Len(stream) - max_lines)
                      ELSE archive]

\* _jsonl_append of an experience record
HygAppend(success) ==
    /\ hyg.appended < MaxRecords
    /\ hyg' = [hyg EXCEPT
          !.stream = Append(@, [id |-> hyg.appended + 1, week |-> hyg.week,
                                success |-> success]),
          !.appended = @ + 1,
          !.clean = FALSE]
    /\ UNCHANGED nonHygVars

HygWeekPasses ==
    /\ hyg.week < MaxWeeks
    /\ hyg' = [hyg EXCEPT !.week = @ + 1, !.clean = FALSE]
    /\ UNCHANGED nonHygVars

\* do_hygiene on the experience stream: trust prune, then rotate.  The
\* size cap of check_log_sizes (10 GiB) is out of reach of these streams.
do_hygiene(archive_ok) ==
    /\ ~hyg.clean
    /\ \E r \in {rotate(trust_prune(hyg.stream, hyg.week), hyg.archive,
                        RotateMax, archive_ok)} :
          hyg' = [hyg EXCEPT !.stream = r.stream, !.archive = r.archive, !.clean = TRUE]
    /\ UNCHANGED nonHygVars

NextHygiene ==
    \/ \E success \in SUCCESS_FIELDS : HygAppend(success)
    \/ HygWeekPasses
    \/ \E archive_ok \in BOOLEAN : do_hygiene(archive_ok)

InitHygiene == PermIdle /\ Idle2

SpecHygiene == InitHygiene /\ [][NextHygiene]_vars

Ids(s) == { s[k].id : k \in DOMAIN s }

\* C21: after a hygiene cycle the stream holds min(appended, rotate-max)
\* lines and every other appended record is in the archive.
C21_EvictedAreArchived ==
    hyg.clean =>
        /\ Len(hyg.stream) = (IF hyg.appended < RotateMax THEN hyg.appended ELSE RotateMax)
        /\ Ids(hyg.stream) \cup Ids(hyg.archive) = 1..hyg.appended

(***************************************************************************)
(* Genesis suggestions: machina_learning_memory.py _genesis_suggest        *)
(***************************************************************************)

\* suggestion keys the failure patterns of a call may yield, in the order
\* the three patterns are examined
SUGGESTION_KEYS == <<"replace_shell", "fix_timeout">>

KeysOf(file) == { file[k] : k \in DOMAIN file }

\* the records a call prepares: the keys its patterns yield that are not
\* among the keys it has read
new_suggestions(wanted, existing) ==
    LET fresh(key) == key \in wanted /\ key \notin existing
    IN  SelectSeq(SUGGESTION_KEYS, fresh)

\* _genesis_suggest, first part: the stream is read under a shared lock,
\* the lock is released, and the new suggestions are prepared
GenRead(e, wanted) ==
    /\ gen.em[e].pc = "idle"
    /\ \E ns \in {new_suggestions(wanted, KeysOf(gen.file))} :
          gen' = [gen EXCEPT !.em[e] =
                     [pc |-> IF ns = <<>> THEN "idle" ELSE "write",
                      existing |-> KeysOf(gen.file),
                      new_suggestions |-> ns]]
    /\ UNCHANGED nonGenVars

\* _genesis_suggest, second part: one _jsonl_append per new suggestion
GenAppend(e) ==
    /\ gen.em[e].pc = "write"
    /\ gen' = [gen EXCEPT
          !.file = Append(@, Head(gen.em[e].new_suggestions)),
          !.em[e].new_suggestions = Tail(@),
          !.em[e].pc = IF Len(gen.em[e].new_suggestions) = 1 THEN "idle" ELSE "write"]
    /\ UNCHANGED nonGenVars

\* do_hygiene drops the suggestions that were executed more than a day ago
GenClean ==
    /\ gen.file # <<>>
    /\ gen' = [gen EXCEPT !.file = Tail(@)]
    /\ UNCHANGED nonGenVars

NextGenesis ==
    \/ \E e \in EMITTERS, wanted \in SUBSET KeysOf(SUGGESTION_KEYS) : GenRead(e, wanted)
    \/ \E e \in EMITTERS : GenAppend(e)
    \/ GenClean

InitGenesis == PermIdle /\ Idle2

SpecGenesis == InitGenesis /\ [][NextGenesis]_vars

\* C22: the genesis-suggestions stream never holds two records with the
\* same suggestion_key.
C22_UniqueSuggestionKeys ==
    \A j, k \in DOMAIN gen.file : gen.file[j] = gen.file[k] => j = k

(***************************************************************************)
(* SelfHealer rate limit: machina_gvu.py _rate_ok, attempt_heal            *)
(***************************************************************************)

GENESIS_MAX_PER_HOUR == 2
\* the engine's test level, the only caller, runs at most once per l2_rate
l2_rate == 600
\* attempts and test periods of one run of the model
MaxAttempts == 4
MaxTestPeriods == 7

\* how an attempt_heal call with failure actions proceeds once it passed
\* the rate test
HEAL_OUTCOMES == {"codegen_empty", "write_blocked", "dangerous_blocked",
                  "sandbox_ok", "sandbox_failed"}
\* the outcomes in which the generated script reaches the sandbox run
SANDBOXED == {"sandbox_ok", "sandbox_failed"}

WithinHour(ts, now) ==
    LET recent(t) == now - t < 3600
    IN  SelectSeq(ts, recent)

\* _rate_ok, on the pruned list
rate_ok(ts, now) == Len(WithinHour(ts, now)) < GENESIS_MAX_PER_HOUR

\* attempt_heal(failure_actions) with a non-empty list of actions, called
\* from the test level of a tick
attempt_heal(outcome) ==
    /\ ~heal.tested
    /\ Len(heal.attempts) < MaxAttempts
    /\ \E recent \in {WithinHour(heal.genesis_recent, heal.now)} :
          IF ~rate_ok(heal.genesis_recent, heal.now)
          THEN /\ heal' = [heal EXCEPT !.genesis_recent = recent, !.refused = TRUE,
                                        !.tested = TRUE]
               /\ outcome = "codegen_empty"
          ELSE heal' = [heal EXCEPT
                  !.genesis_recent = IF outcome \in SANDBOXED
                                     THEN Append(recent, heal.now) ELSE recent,
                  !.attempts = Append(@, [at |-> heal.now, outcome |-> outcome]),
                  !.refused = FALSE, !.tested = TRUE]
    /\ UNCHANGED nonHealVars

\* the test level becomes due again
HealTestDue ==
    /\ heal.now < MaxTestPeriods * l2_rate
    /\ heal' = [heal EXCEPT !.now = @ + l2_rate, !.refused = FALSE, !.tested = FALSE]
    /\ UNCHANGED nonHealVars

NextHealer ==
    \/ \E outcome \in HEAL_OUTCOMES : attempt_heal(outcome)
    \/ HealTestDue

InitHealer == PermIdle /\ Idle2

SpecHealer == InitHealer /\ [][NextHealer]_vars

\* the attempts (calls that went on to code generation) within the hour
\* that ends at the latest attempt
AttemptsInHour(as) ==
    { k \in DOMAIN as : as[Len(as)].at - as[k].at < 3600 }

\* C23: no hour holds more than two genesis attempts.
C23_TwoAttemptsPerHour ==
    Cardinality(AttemptsInHour(heal.attempts)) <= GENESIS_MAX_PER_HOUR

(***************************************************************************)
(* CuriosityDriver rate limits: _stimulus.py can_run, run_cycle            *)
(***************************************************************************)

\* production values of curiosity_max_per_day and curiosity_cooldown as the
\* class declares them
MAX_PER_DAY == 3
COOLDOWN_SEC == 7200
DAY_SEC == 86400
\* the clock advances by half a cooldown, for at most MaxCurSteps steps
MaxCurSteps == 30
CurStep == COOLDOWN_SEC \div 2

\* _reset_daily_if_needed
reset_daily_if_needed(c) ==
    IF c.now - c.daily_reset_ts > DAY_SEC
    THEN [c EXCEPT !.daily_count = 0, !.daily_reset_ts = c.now]
    ELSE c

can_run_no_cooldown(c) == c.daily_count < MAX_PER_DAY

\* can_run, after the daily reset
can_run(c) ==
    /\ ~(c.daily_count >= MAX_PER_DAY)
    /\ ~(c.now - c.last_run < COOLDOWN_SEC)

\* can_run() as the burst session's action selection calls it: the answer
\* only decides whether curiosity is offered as an action
CanRunCall ==
    /\ reset_daily_if_needed(curio) # curio
    /\ curio' = [reset_daily_if_needed(curio) EXCEPT !.skipped = FALSE]
    /\ UNCHANGED nonCurVars

\* run_cycle
run_cycle ==
    /\ \E c \in {reset_daily_if_needed(curio)} :
          IF ~can_run(c)
          THEN curio' = [c EXCEPT !.skipped = TRUE]
          ELSE curio' = [c EXCEPT !.last_run = c.now, !.daily_count = @ + 1,
                                !.starts = Append(@, c.now), !.skipped = FALSE]
    /\ curio' # curio
    /\ UNCHANGED nonCurVars

CurWait ==
    /\ curio.now < StartTime + MaxCurSteps * CurStep
    /\ curio' = [curio EXCEPT !.now = @ + CurStep, !.skipped = FALSE]
    /\ UNCHANGED nonCurVars

NextCuriosity ==
    \/ CanRunCall
    \/ run_cycle
    \/ CurWait

InitCuriosity == PermIdle /\ Idle2

SpecCuriosity == InitCuriosity /\ [][NextCuriosity]_vars

\* the cycles started in the 24 hours that end with the latest start
StartsInDay(ts) == { k \in DOMAIN ts : ts[Len(ts)] - ts[k] < DAY_SEC }
\* the cycles started since the driver's latest daily reset
StartsSinceReset(c) == { k \in DOMAIN c.starts : c.starts[k] >= c.daily_reset_ts }

\* C24 as stated: no 24 hours hold more than MAX_PER_DAY cycle starts, and
\* consecutive starts are at least COOLDOWN_SEC apart.
C24_CapPerDayAndCooldown ==
    /\ Cardinality(StartsInDay(curio.starts)) <= MAX_PER_DAY
    /\ \A k \in DOMAIN curio.starts :
          k > 1 => curio.starts[k] - curio.starts[k - 1] >= COOLDOWN_SEC

\* C24: the cycles started since the latest daily reset are daily_count of
\* them and never more than MAX_PER_DAY, so that no 24 hours hold more than
\* twice MAX_PER_DAY; consecutive starts are at least COOLDOWN_SEC apart.
C24_CapPerResetWindowAndCooldown ==
    /\ Cardinality(StartsSinceReset(curio)) = curio.daily_count
    /\ curio.daily_count <= MAX_PER_DAY
    /\ Cardinality(StartsInDay(curio.starts)) <= 2 * MAX_PER_DAY
    /\ \A k \in DOMAIN curio.starts :
          k > 1 => curio.starts[k] - curio.starts[k - 1] >= COOLDOWN_SEC

\* run_cycle was refused by the cap alone: the cooldown since the third
\* cycle of the window had elapsed
C24_Witness ==
    /\ curio.skipped
    /\ curio.daily_count = MAX_PER_DAY
    /\ curio.now - curio.last_run >= COOLDOWN_SEC
    /\ Len(curio.starts) = MAX_PER_DAY

(***************************************************************************)
(* Generated code and its artifacts: _stimulus.py execute_goal,            *)
(* _engine_levels.py do_heal, _engine_ops.py rollback_artifact             *)
(***************************************************************************)

E2E_RESULTS == {"pass", "regression", "error"}

\* rollback_artifact: the script is deleted, and every skill entry with the
\* code's hash is dropped from the skills stream
rollback_artifact(a, script_path, code) ==
    LET other(e) == e # code
    IN  [a EXCEPT !.scripts[script_path] = NoScript,
                  !.skills = SelectSeq(@, other)]

\* execute_goal of the curiosity driver, for code that passed the blocklist;
\* remove_ok tells whether os.remove of the script succeeds
execute_goal_files(sandbox_ok, e2e, remove_ok) ==
    /\ art.made < MaxCodes
    /\ \E code \in {art.made + 1}, path \in {"curiosity_util.py"} :
        \E removed \in {IF remove_ok THEN NoScript ELSE code} :
          art' = IF ~sandbox_ok
                 THEN [art EXCEPT !.made = code, !.scripts[path] = removed,
                                  !.verdict[code] = "sandbox_failed"]
                 ELSE IF e2e = "regression"
                 THEN [art EXCEPT !.made = code, !.scripts[path] = removed,
                                  !.verdict[code] = "gate_rejected"]
                 ELSE [art EXCEPT !.made = code, !.scripts[path] = code,
                                  !.skills = Append(@, code),
                                  !.verdict[code] = "accepted"]
    /\ UNCHANGED nonArtVars

\* do_heal of the engine, for a suggestion whose generated code passed the
\* blocklist and the length test
do_heal_files(sandbox_ok, e2e) ==
    /\ art.made < MaxCodes
    /\ \E code \in {art.made + 1}, path \in {"genesis_skey.py"} :
        \E written \in {[art EXCEPT !.made = code, !.scripts[path] = code]} :
          art' = IF ~sandbox_ok
                 THEN [written EXCEPT !.verdict[code] = "sandbox_failed"]
                 ELSE IF e2e = "regression"
                 THEN [rollback_artifact([written EXCEPT !.skills = Append(@, code)],
                                         path, code)
                          EXCEPT !.verdict[code] = "gate_rejected"]
                 ELSE [written EXCEPT !.skills = Append(@, code),
                                      !.verdict[code] = "accepted"]
    /\ UNCHANGED nonArtVars

NextArtifacts ==
    \/ \E sandbox_ok \in BOOLEAN, e2e \in E2E_RESULTS, remove_ok \in BOOLEAN :
          execute_goal_files(sandbox_ok, e2e, remove_ok)
    \/ \E sandbox_ok \in BOOLEAN, e2e \in E2E_RESULTS : do_heal_files(sandbox_ok, e2e)

InitArtifacts == PermIdle /\ Idle2

SpecArtifacts == InitArtifacts /\ [][NextArtifacts]_vars

REJECTED == {"sandbox_failed", "gate_rejected"}

\* C25: rejected code leaves nothing behind: no script holds it and no
\* skill record names it; skill records exist for accepted code only.
C25_RejectedLeavesNothing ==
    /\ \A c \in GEN_CODES : art.verdict[c] \in REJECTED =>
          /\ \A p \in SCRIPT_PATHS : art.scripts[p] # c
          /\ \A k \in DOMAIN art.skills : art.skills[k] # c
    /\ \A k \in DOMAIN art.skills : art.verdict[art.skills[k]] = "accepted"

(***************************************************************************)
(* Chains stop at the first error: machina_dispatch.py execute_chain       *)
(***************************************************************************)

\* what a step returned when it failed: a refusal of dispatch, or an error
\* of the handler in either form
StepFailed(rec) == rec.result # "ok"

\* C26: in the results of a chain no step follows a step that returned an
\* error.
C26_NoStepAfterError ==
    \A i \in DOMAIN lastCall : i < Len(lastCall) => ~StepFailed(lastCall[i])

(***************************************************************************)
(* Graph memory compaction: machina_graph_memory.py                        *)
(***************************************************************************)

\* compaction threshold, mention counts and file lengths of the model
COMPACTION_THRESHOLD == 3
MaxMentions == 2
MaxGraphLines == 4
ENT_NAMES == {"a", "b"}
REL_ID == "a|b|related_to"
\* how the file operations of one compact() call go
COMPACT_IO == {"ok", "entities_fail", "relations_fail"}

IndexOf(store, id) ==
    IF \E i \in DOMAIN store : store[i].id = id
    THEN CHOOSE i \in DOMAIN store : store[i].id = id
    ELSE 0

\* a dict assignment: the key keeps its place, a new key goes last
DictSet(store, rec) ==
    IF IndexOf(store, rec.id) # 0
    THEN [store EXCEPT ![IndexOf(store, rec.id)] = rec]
    ELSE Append(store, rec)

\* load: the later lines of a file override the earlier ones
RECURSIVE LoadFile(_, _)
LoadFile(file, store) ==
    IF file = <<>> THEN store
    ELSE LoadFile(Tail(file), DictSet(store, Head(file)))

load(g) ==
    IF g.loaded THEN g
    ELSE [g EXCEPT !.entities = LoadFile(g.ent_file, <<>>),
                   !.relations = LoadFile(g.rel_file, <<>>),
                   !.loaded = TRUE]

compact_appending(g, io) ==
    [g EXCEPT !.ent_file = @ \o g.entities, !.rel_file = @ \o g.relations,
              !.append_count = 0]

\* compact: each non-empty store replaces its file; an exception ends the
\* call where it is raised
compact(g, io) ==
    LET ents == IF g.entities # <<>> THEN g.entities ELSE g.ent_file
        rels == IF g.relations # <<>> THEN g.relations ELSE g.rel_file
    IN  IF io = "entities_fail" /\ g.entities # <<>> THEN g
        ELSE IF io = "relations_fail" /\ g.relations # <<>>
        THEN [g EXCEPT !.ent_file = ents]
        ELSE [g EXCEPT !.ent_file = ents, !.rel_file = rels, !.append_count = 0]

maybe_compact(g, io) ==
    IF g.append_count >= COMPACTION_THRESHOLD THEN compact(g, io) ELSE g

\* add_entity on a loaded graph
add_entity_loaded(g, name, io) ==
    LET i == IndexOf(g.entities, name)
    IN  IF i # 0
        THEN LET ent == [id |-> name, mention_count |-> g.entities[i].mention_count + 1]
             IN  [g EXCEPT !.entities[i] = ent, !.ent_file = Append(@, ent),
                           !.append_count = @ + 1]
        ELSE LET ent == [id |-> name, mention_count |-> 1]
             IN  maybe_compact([g EXCEPT !.entities = Append(@, ent),
                                         !.ent_file = Append(@, ent),
                                         !.append_count = @ + 1], io)

MentionCount(store, id) ==
    IF IndexOf(store, id) = 0 THEN 0 ELSE store[IndexOf(store, id)].mention_count

GraphRoom(g) == Len(g.ent_file) + 2 <= MaxGraphLines /\ Len(g.rel_file) < MaxGraphLines

add_entity(name, io) ==
    /\ GraphRoom(graph)
    /\ MentionCount(load(graph).entities, name) < MaxMentions
    /\ graph' = [add_entity_loaded(load(graph), name, io) EXCEPT !.shrunk = FALSE]
    /\ UNCHANGED nonGraphVars

\* add_relation between "a" and "b": adds the entities that are missing
add_relation(io) ==
    /\ GraphRoom(graph)
    /\ MentionCount(load(graph).relations, REL_ID) < MaxMentions
    /\ \E g1 \in {load(graph)} :
        \E g2 \in {IF IndexOf(g1.entities, "a") = 0 THEN add_entity_loaded(g1, "a", io) ELSE g1} :
        \E g3 \in {IF IndexOf(g2.entities, "b") = 0 THEN add_entity_loaded(g2, "b", io) ELSE g2} :
          LET i == IndexOf(g3.relations, REL_ID)
          IN  graph' = [(IF i # 0
                         THEN LET rel == [id |-> REL_ID,
                                          mention_count |-> g3.relations[i].mention_count + 1]
                              IN  [g3 EXCEPT !.relations[i] = rel,
                                             !.rel_file = Append(@, rel),
                                             !.append_count = @ + 1]
                         ELSE LET rel == [id |-> REL_ID, mention_count |-> 1]
                              IN  maybe_compact([g3 EXCEPT !.relations = Append(@, rel),
                                                           !.rel_file = Append(@, rel),
                                                           !.append_count = @ + 1], io))
                        EXCEPT !.shrunk = FALSE]
    /\ UNCHANGED nonGraphVars

\* compact() called from outside (the graph tool's compact operation)
GraphCompact(io) ==
    /\ graph' = [compact(graph, io) EXCEPT
                   !.shrunk = Len(compact(graph, io).ent_file) < Len(graph.ent_file)]
    /\ graph' # graph
    /\ UNCHANGED nonGraphVars

\* the process ends and a new GraphMemory is constructed over the same files
GraphRestart ==
    /\ graph.loaded
    /\ graph' = [NewGraph EXCEPT !.ent_file = graph.ent_file, !.rel_file = graph.rel_file]
    /\ UNCHANGED nonGraphVars

NextGraph ==
    \/ \E name \in ENT_NAMES, io \in COMPACT_IO : add_entity(name, io)
    \/ \E io \in COMPACT_IO : add_relation(io)
    \/ \E io \in COMPACT_IO : GraphCompact(io)
    \/ GraphRestart

InitGraph == PermIdle /\ Idle2

SpecGraph == InitGraph /\ [][NextGraph]_vars

\* C27: compaction is idempotent: from every state, and however its file
\* operations go, compacting twice leaves what compacting once leaves.
C27_CompactIdempotent ==
    \A io \in COMPACT_IO : compact(compact(graph, io), io) = compact(graph, io)

\* a compaction has just replaced an entities file that held superseded lines
C27_Witness ==
    /\ graph.shrunk
    /\ graph.append_count = 0
    /\ graph.ent_file = graph.entities
    /\ \E i \in DOMAIN graph.entities : graph.entities[i].mention_count > 1

(***************************************************************************)
(* Random stimulus pool: machina_autonomic/_random_stimulus.py             *)
(***************************************************************************)

\* lines of the done file, lines _load_done reads (500 in the source) and
\* dynamic generations per cycle (5 in the source), scaled
MaxDoneLines == 4
DoneLoadMax == 2
DynGenMax == 1

Range(s) == { s[k] : k \in DOMAIN s }

\* the pool items that are not done
AlivePool(st) == { i \in st.pool : stim_hash(i) \notin st.done_hashes }

\* mark_done that hashes the picked item as pick returned it, with its
\* category and hash fields
mark_done_rehashed(st, item) ==
    [st EXCEPT !.done_hashes = @ \cup {stim_hash(item \o "+category")},
               !.done_file = Append(@, stim_hash(item \o "+category"))]

\* mark_done
mark_done(st, item) ==
    [st EXCEPT !.done_hashes = @ \cup {stim_hash(item)},
               !.done_file = Append(@, stim_hash(item))]

Picked(st, item) ==
    [st EXCEPT !.picked = item, !.seen = @ \cup {stim_hash(item)}]

\* pick; dyn is what dynamic generation returns, quests what a refresh
\* finds, unlink_ok whether the done file can be removed
pick(choice, dyn, quests, unlink_ok) ==
    /\ stim.picked = NoItem
    /\ \E st \in {IF stim.cooldown = "over"
                  THEN [stim EXCEPT !.cooldown = "off", !.reset_count = 0]
                  ELSE stim} :
          IF stim.cooldown = "on" THEN FALSE
          ELSE IF AlivePool(st) # {}
          THEN /\ choice \in AlivePool(st)
               /\ dyn = NoItem /\ quests = st.pool \ STATIC_ITEMS /\ unlink_ok
               /\ stim' = Picked(st, choice)
          ELSE IF /\ st.dyn_gen_count < DynGenMax
                  /\ dyn # NoItem
                  /\ stim_hash(dyn) \notin st.done_hashes
          THEN /\ choice = dyn /\ quests = st.pool \ STATIC_ITEMS /\ unlink_ok
               /\ stim' = Picked([st EXCEPT !.dyn_gen_count = @ + 1], dyn)
          ELSE IF st.reset_count = 0
          THEN /\ choice \in STATIC_ITEMS \cup quests
               /\ stim' = Picked([st EXCEPT
                            !.reset_count = 1, !.done_hashes = {}, !.dyn_gen_count = 0,
                            !.pool = STATIC_ITEMS \cup quests,
                            !.seen = @ \cup HashesOf(quests),
                            !.done_file = IF unlink_ok THEN <<>> ELSE @], choice)
          ELSE /\ choice = NoItem /\ quests = st.pool \ STATIC_ITEMS /\ unlink_ok
               /\ stim' = [st EXCEPT !.cooldown = "on"]
    /\ UNCHANGED nonStimVars

\* execute_stimulus: the picked item is run and marked done
execute_stimulus ==
    /\ stim.picked # NoItem
    /\ Len(stim.done_file) < MaxDoneLines
    /\ stim' = [mark_done(stim, stim.picked) EXCEPT !.picked = NoItem]
    /\ UNCHANGED nonStimVars

\* the five minutes of the cooldown pass
StimCooldownOver ==
    /\ stim.cooldown = "on"
    /\ stim' = [stim EXCEPT !.cooldown = "over"]
    /\ UNCHANGED nonStimVars

\* the engine is restarted: a new RandomStimulus over the same done file
StimRestart(quests) ==
    /\ stim.picked = NoItem
    /\ stim' = [NewStimulus EXCEPT
                  !.pool = STATIC_ITEMS \cup quests,
                  !.done_file = stim.done_file,
                  !.done_hashes = Range(LastLines(stim.done_file, DoneLoadMax)),
                  !.seen = stim.seen \cup HashesOf(STATIC_ITEMS \cup quests)]
    /\ stim' # stim
    /\ UNCHANGED nonStimVars

NextStimulus ==
    \/ \E choice \in STATIC_ITEMS \cup UNION QUEST_SETS \cup DYN_ITEMS \cup {NoItem},
          dyn \in DYN_ITEMS \cup {NoItem}, quests \in QUEST_SETS, unlink_ok \in BOOLEAN :
          pick(choice, dyn, quests, unlink_ok)
    \/ execute_stimulus
    \/ StimCooldownOver
    \/ \E quests \in QUEST_SETS : StimRestart(quests)

InitStimulus == PermIdle /\ Idle2

SpecStimulus == InitStimulus /\ [][NextStimulus]_vars

\* C28: the dedup hashes and the pool items still alive are together never
\* more than the items ever seen.
C28_DoneAndAliveWithinSeen ==
    Cardinality(stim.done_hashes) + Cardinality(AlivePool(stim))
        <= Cardinality(stim.seen)

\* after a reset of the exhausted pool and a dynamic item, hashes are held
\* and an item of the refreshed pool is alive
C28_Witness ==
    /\ stim.reset_count = 1
    /\ stim.done_hashes # {}
    /\ AlivePool(stim) # {}
    /\ stim_hash("d1") \in stim.seen
    /\ Cardinality(stim.done_hashes) + Cardinality(AlivePool(stim)) < Cardinality(stim.seen)

(***************************************************************************)
(* The levels of one tick: machina_autonomic/_engine.py tick               *)
(***************************************************************************)

MaxLoggedTicks == 2

\* the level blocks of tick() in the order of its code
LEVEL_ORDER == <<"reflect", "test", "heal", "drain_inbox", "hygiene",
                 "curiosity", "web_explore", "burst">>
\* the actions a burst session picks from, by falling priority
BURST_PRIORITY == <<"test", "heal", "drain_inbox", "web_explore", "curiosity", "reflect">>

LevelIndex(h) == CHOOSE i \in DOMAIN LEVEL_ORDER : LEVEL_ORDER[i] = h

Ev(kind, h) == [kind |-> kind, handler |-> h]

next_level_skipping(slot) == slot + 2

\* the statement that follows a level block
next_level(slot) == slot + 1

\* tick() up to the try block
TickBegin ==
    /\ ~tk.running
    /\ tk.done < MaxLoggedTicks
    /\ tk' = [tk EXCEPT !.running = TRUE, !.slot = 1, !.log = <<>>, !.audit = <<>>]
    /\ UNCHANGED nonTkVars

AtLevel == tk.running /\ tk.slot \in DOMAIN LEVEL_ORDER

\* the gate of the level is false (the inbox drain has no gate)
LevelSkipped ==
    /\ AtLevel
    /\ LEVEL_ORDER[tk.slot] # "drain_inbox"
    /\ tk' = [tk EXCEPT !.log = Append(@, Ev("skip", LEVEL_ORDER[tk.slot])),
                        !.slot = next_level(@)]
    /\ UNCHANGED nonTkVars

\* the handler of the level runs and returns
LevelReturns ==
    /\ AtLevel
    /\ LEVEL_ORDER[tk.slot] # "burst"
    /\ tk' = [tk EXCEPT !.log = Append(@, Ev("run", LEVEL_ORDER[tk.slot])),
                        !.slot = next_level(@)]
    /\ UNCHANGED nonTkVars

\* do_curiosity with an unproductive cycle falls through to web explore
CuriosityFallsThrough ==
    /\ AtLevel
    /\ LEVEL_ORDER[tk.slot] = "curiosity"
    /\ tk' = [tk EXCEPT !.log = @ \o <<Ev("run", "curiosity"), Ev("run", "web_explore")>>,
                        !.slot = next_level(@)]
    /\ UNCHANGED nonTkVars

\* the burst session runs the picked actions, highest priority first
BurstRuns(picked) ==
    /\ AtLevel
    /\ LEVEL_ORDER[tk.slot] = "burst"
    /\ LET chosen(h) == h \in picked
           run(k) == Ev("run", SelectSeq(BURST_PRIORITY, chosen)[k])
       IN  tk' = [tk EXCEPT
                    !.log = @ \o <<Ev("run", "burst")>>
                              \o [k \in 1..Cardinality(picked) |-> run(k)],
                    !.slot = next_level(@)]
    /\ UNCHANGED nonTkVars

\* the handler of the level raises: the except clause of tick() logs the
\* error, writes the audit entry, sends the alert, and tick() returns
LevelRaises ==
    /\ AtLevel
    /\ tk' = [tk EXCEPT !.log = Append(@, Ev("raise", LEVEL_ORDER[tk.slot])),
                        !.audit = Append(@, [level |-> "ENGINE", event |-> "tick_error",
                                             success |-> FALSE]),
                        !.running = FALSE, !.done = @ + 1]
    /\ UNCHANGED nonTkVars

\* the try block is left without an exception
TickReturns ==
    /\ tk.running
    /\ tk.slot \notin DOMAIN LEVEL_ORDER
    /\ tk' = [tk EXCEPT !.running = FALSE, !.done = @ + 1]
    /\ UNCHANGED nonTkVars

NextTick ==
    \/ TickBegin
    \/ LevelSkipped
    \/ LevelReturns
    \/ CuriosityFallsThrough
    \/ \E picked \in SUBSET Range(BURST_PRIORITY) : BurstRuns(picked)
    \/ LevelRaises
    \/ TickReturns

InitTick == PermIdle /\ Idle2

SpecTick == InitTick /\ [][NextTick]_vars

\* the level had its turn before position i of the log
Decided(h, i) == \E j \in 1..(i - 1) : tk.log[j].handler = h

\* C29: a handler runs in a tick only after every level that precedes it
\* in the order reflect, test, heal, drain-inbox, hygiene, curiosity,
\* web-explore, burst has run or been skipped in that tick.
C29_LevelsInOrder ==
    \A i \in DOMAIN tk.log :
        tk.log[i].kind \in {"run", "raise"} =>
            \A g \in 1..(LevelIndex(tk.log[i].handler) - 1) : Decided(LEVEL_ORDER[g], i)

\* a tick in which all eight levels ran, the burst session running test
\* and reflect again
C29_Witness ==
    /\ ~tk.running
    /\ \A g \in DOMAIN LEVEL_ORDER :
          \E i \in DOMAIN tk.log : tk.log[i] = Ev("run", LEVEL_ORDER[g])
    /\ Len(tk.log) = Len(LEVEL_ORDER) + 2
    /\ tk.log[Len(tk.log)] = Ev("run", "reflect")

\* C30: an exception of a level handler is written to the audit log with
\* success false, does not escape the tick, and does not keep the levels
\* that follow it from having their turn in that tick.
C30_ExceptionStopsNoLevel ==
    \A i \in DOMAIN tk.log :
        (tk.log[i].kind = "raise" /\ ~tk.running) =>
            /\ \E a \in DOMAIN tk.audit : ~tk.audit[a].success
            /\ \A g \in (LevelIndex(tk.log[i].handler) + 1)..Len(LEVEL_ORDER) :
                  \E j \in DOMAIN tk.log : tk.log[j].handler = LEVEL_ORDER[g]

(***************************************************************************)
(* Stall accounting of a burst session: _engine_burst.py autonomous_burst  *)
(***************************************************************************)

MaxStallTurns == 7
\* what pick_next_action hands a turn: nothing, a level action (level_key
\* set), the inbox drain (priority 4, no level_key), or a fallback of
\* priority 0 (self-question, stimulus)
TURN_PICKS == {"none", "level", "inbox", "fallback"}

\* stall_count after one turn; raised: action["fn"]() raised; flag: the
\* action set _last_action_productive
stall_after(count, act, raised, flag) ==
    IF act = "none" THEN count + 1
    ELSE IF raised THEN count + 1
    ELSE IF act = "level" THEN 0
    ELSE IF act = "inbox" THEN 0
    ELSE IF flag THEN 0
    ELSE count + 1

\* one turn of the loop that got past the guards at its top
StallTurn(act, raised, flag) ==
    /\ ~stallv.ended
    /\ stallv.turns < MaxStallTurns
    /\ stallv.stall_count < burst_stall_limit
    /\ act = "none" => (~raised /\ ~flag)
    /\ act \in {"level", "inbox"} => ~flag
    /\ stallv' = [stall_count |-> stall_after(stallv.stall_count, act, raised, flag),
                  turns |-> stallv.turns + 1,
                  ended |-> FALSE,
                  last |-> [act |-> act, raised |-> raised, flag |-> flag,
                            stamped |-> act = "level" /\ ~raised,
                            before |-> stallv.stall_count]]
    /\ UNCHANGED nonStallVars

\* the guard at the top of a turn finds stall_limit unproductive turns
StallExit ==
    /\ ~stallv.ended
    /\ stallv.stall_count >= burst_stall_limit
    /\ stallv' = [stallv EXCEPT !.ended = TRUE]
    /\ UNCHANGED nonStallVars

NextStall ==
    \/ \E act \in TURN_PICKS, raised \in BOOLEAN, flag \in BOOLEAN :
          StallTurn(act, raised, flag)
    \/ StallExit

InitStall == PermIdle /\ Idle2

SpecStall == InitStall /\ [][NextStall]_vars

\* C31: a turn resets the stall counter if and only if its action set
\* last_action_productive or advanced a level_done timestamp; every other
\* turn increments the counter.
C31_ProductiveIffFlagOrStamp ==
    stallv.last # NoTurn =>
        IF stallv.last.flag \/ stallv.last.stamped
        THEN stallv.stall_count = 0
        ELSE stallv.stall_count = stallv.last.before + 1

(***************************************************************************)
(* Continuation of the execute loop: telegram_bot_pulse.py handle_message  *)
(* (error counting, _next chain, plan step queue, LLM continue),           *)
(* _advance_step_queue; telegram_bot_handlers.py _step_to_intent           *)
(***************************************************************************)

\* cycles of the for loop (MACHINA_MAX_CYCLES is 30 / 100), enough here for
\* five errors in a row and one more dispatch
ContCycles == 6
\* "if _consecutive_errors >= 5"
ERROR_LIMIT == 5
\* MACHINA_PULSE_REPAIR_ROUNDS, clamped to 0..5 by the code
max_repair_rounds == 1
\* "if _same_tool_count >= 3"
SAME_TOOL_LIMIT == 3

TOOLS == {"shell", "code"}
\* an intent's _next marker with the markers nested in it, outermost first:
\* a tool name is a well-formed marker for that tool, "invalid" a shell or
\* code marker without its cmd or code, "noaction" a marker that
\* _intent_to_machina_action does not map to an action
CHAINS == {<<>>, <<"shell">>, <<"invalid">>, <<"noaction">>, <<"shell", "shell">>}
INTENTS == [tool : TOOLS, next : CHAINS, src : {"user"}]
LLM_INTENTS == {[tool |-> "shell", next |-> <<>>, src |-> "llm"],
                [tool |-> "code", next |-> <<"shell">>, src |-> "llm"]}
\* plan steps: tool steps, with or without a _next key, and a step that
\* _step_to_intent does not map to an action
STEPS == {[tool |-> "shell", next |-> <<>>], [tool |-> "shell", next |-> <<"shell">>],
          [tool |-> "chat", next |-> <<>>]}
PLANS == {<<>>} \cup {<<s>> : s \in STEPS} \cup {<<s, t>> : s \in STEPS, t \in STEPS}
\* what the first 500 characters of a dispatch result hold: "no command",
\* one of "error" / "failed" / "traceback", one of the strict success patterns
CYCLE_TEXTS == {[nocmd |-> FALSE, err |-> FALSE, ok |-> FALSE],
                [nocmd |-> FALSE, err |-> FALSE, ok |-> TRUE],
                [nocmd |-> FALSE, err |-> TRUE, ok |-> FALSE],
                [nocmd |-> TRUE, err |-> FALSE, ok |-> FALSE],
                [nocmd |-> TRUE, err |-> TRUE, ok |-> FALSE]}
\* what a continue call of the chat driver answers: done, a continue signal
\* without JSON, an action (one of LLM_INTENTS), something invalid
LLM_ANSWERS == {[type |-> "done", intent |-> NoIntent],
                [type |-> "continue_signal", intent |-> NoIntent],
                [type |-> "invalid", intent |-> NoIntent]}
               \cup {[type |-> "action", intent |-> li] : li \in LLM_INTENTS}
\* MACHINA_PLAN_CONTINUE_ON_STEP_ERROR, on by default
continue_on_step_error == TRUE

has_error(r) == r.err

step_to_intent(step) ==
    IF step.tool \in TOOLS THEN [tool |-> step.tool, next |-> step.next, src |-> "plan"]
    ELSE NoIntent

\* pops one step; the intent is NoIntent when the queue is empty or the
\* step is no action
advance_step_queue(q) ==
    IF q = <<>> THEN [queue |-> q, intent |-> NoIntent]
    ELSE [queue |-> Tail(q), intent |-> step_to_intent(Head(q))]

next_marker_any(c) == c.intent.next

\* "next_marker = intent.get("_next") if not _step_queue else None"
next_marker_of(c) == IF c.step_queue = <<>> THEN c.intent.next ELSE <<>>

\* a shell marker without cmd, a code marker without code is dropped
validated(m) == IF m # <<>> /\ Head(m) = "invalid" THEN <<>> ELSE m

\* _intent_to_machina_action of the marker, the nested marker passed on
chain_intent(m) ==
    IF m # <<>> /\ Head(m) \in TOOLS
    THEN [tool |-> Head(m), next |-> Tail(m), src |-> "chain"]
    ELSE NoIntent

ContGo(c, intent, via) ==
    [c EXCEPT !.intent = intent, !.last = [@ EXCEPT !.via = via]]

ContStop(c, why) ==
    [c EXCEPT !.pc = "done", !.last = [@ EXCEPT !.via = why]]

\* (3) the LLM continue call and what the loop makes of its answer
llm_continue(c, r, llm, rep) ==
    LET adv == advance_step_queue(c.step_queue)
        d == [c EXCEPT !.step_queue = adv.queue]
    IN  IF llm.type = "done"
        THEN IF adv.intent # NoIntent THEN ContGo(d, adv.intent, "override")
             ELSE IF has_error(r) /\ d.repair < max_repair_rounds
             THEN IF rep.type = "action"
                  THEN ContGo([d EXCEPT !.repair = @ + 1], rep.intent, "repair")
                  ELSE ContStop([d EXCEPT !.repair = @ + 1], "done")
             ELSE ContStop(d, "done")
        ELSE IF llm.type = "continue_signal"
        THEN IF adv.intent # NoIntent THEN ContGo(d, adv.intent, "signal")
             ELSE ContStop(d, "signal_done")
        ELSE IF llm.type = "action" THEN ContGo(c, llm.intent, "llm")
        ELSE ContStop(c, "invalid")

\* (1) the _next chain, (1.5) the plan step queue, (2) the heuristics
continuation(c, r, llm, rep) ==
    LET m == validated(next_marker_of(c))
        adv == advance_step_queue(c.step_queue)
        e == [c EXCEPT !.last = [@ EXCEPT !.stage = "cont", !.queued = Len(c.step_queue)]]
        \* a popped step that is no action is lost; the loop goes on below
        d == IF e.step_queue # <<>> /\ ~has_error(r)
             THEN [e EXCEPT !.step_queue = adv.queue] ELSE e
        plain == ~has_error(r) /\ m = <<>> /\ ~d.multi /\ d.step_queue = <<>>
    IN  IF m # <<>> /\ ~has_error(r) /\ chain_intent(m) # NoIntent
        THEN ContGo(e, chain_intent(m), "chain")
        ELSE IF e.step_queue # <<>> /\ ~has_error(r) /\ adv.intent # NoIntent
        THEN ContGo(d, adv.intent, "queue")
        ELSE IF d.cycle = 1 /\ d.single /\ plain THEN ContStop(d, "single_done")
        ELSE IF plain /\ r.ok THEN ContStop(d, "success_done")
        ELSE llm_continue(d, r, llm, rep)

\* one pass of the for loop: the guards, the dispatch, the empty command
\* recovery, the duplicate detection, the error counting, the continuation.
\* c.cycle counts the passes begun
cycle_pass(c, go, r, llm, rep) ==
    IF c.cycle >= ContCycles THEN ContStop([c EXCEPT !.last = NoPass], "cycles")
    ELSE IF ~go THEN ContStop([c EXCEPT !.last = NoPass], "guard")
    ELSE LET d0 == [c EXCEPT !.cycle = @ + 1,
                             !.late = @ \/ c.err_run >= ERROR_LIMIT,
                             !.err_run = IF ~r.err THEN 0 ELSE IF @ < ERROR_LIMIT THEN @ + 1 ELSE @,
                             !.last = [stage |-> "dispatch", has_error |-> has_error(r),
                                       marker |-> c.intent.next, queued |-> Len(c.step_queue),
                                       via |-> ""]]
             d1 == [d0 EXCEPT !.recov = 0,
                              !.same = IF d0.intent.tool = d0.prev THEN @ + 1 ELSE 1,
                              !.prev = d0.intent.tool]
             d2 == [d1 EXCEPT !.errors = @ + 1]
             adv == advance_step_queue(d2.step_queue)
         IN  IF r.nocmd
             THEN IF d0.recov < max_empty_recovery /\ llm.type = "action"
                  THEN ContGo([d0 EXCEPT !.recov = @ + 1], llm.intent, "recovery")
                  ELSE IF d0.recov < max_empty_recovery
                  THEN ContStop([d0 EXCEPT !.recov = @ + 1], "forced_done")
                  ELSE ContStop(d0, "forced_done")
             ELSE IF d1.same >= SAME_TOOL_LIMIT /\ d1.step_queue = <<>>
             THEN ContStop(d1, "duplicate")
             ELSE IF has_error(r)
             THEN IF d2.errors >= ERROR_LIMIT THEN ContStop(d2, "errors")
                  ELSE IF d2.step_queue # <<>> /\ continue_on_step_error
                  THEN IF adv.intent # NoIntent
                       THEN ContGo([d2 EXCEPT !.step_queue = adv.queue], adv.intent, "errskip")
                       ELSE continuation([d2 EXCEPT !.step_queue = adv.queue], r, llm, rep)
                  ELSE continuation(d2, r, llm, rep)
             ELSE continuation([d1 EXCEPT !.errors = 0], r, llm, rep)

\* the plan phase: the step queue is built and, if there is one, its first
\* step replaces the intent when it is an action
ContStart(intent, plan, one_action, multi) ==
    /\ cont.pc = "idle"
    /\ cont' = [cont EXCEPT !.pc = "run",
                   !.step_queue = advance_step_queue(plan).queue,
                   !.intent = IF advance_step_queue(plan).intent # NoIntent
                              THEN advance_step_queue(plan).intent ELSE intent,
                   !.single = one_action /\ intent.next = <<>>,
                   !.multi = multi]
    /\ UNCHANGED nonContVars

ContCycle(go, r, llm, rep) ==
    /\ cont.pc = "run"
    /\ cont' = cycle_pass(cont, go, r, llm, rep)
    /\ UNCHANGED nonContVars

\* the turn is over; the next message starts from the rest state
ContEnd ==
    /\ cont.pc = "done"
    /\ cont' = NewCont
    /\ UNCHANGED nonContVars

NextCont ==
    \/ \E intent \in INTENTS, plan \in PLANS, one_action, multi \in BOOLEAN :
          ContStart(intent, plan, one_action, multi)
    \* an input that the pass does not read is not enumerated
    \/ \E go \in BOOLEAN :
          \E r \in IF go THEN CYCLE_TEXTS ELSE {CHOOSE t \in CYCLE_TEXTS : TRUE} :
             \E llm \in IF go THEN LLM_ANSWERS ELSE {CHOOSE a \in LLM_ANSWERS : TRUE} :
                \E rep \in IF go /\ has_error(r) /\ llm.type = "done"
                            THEN {a \in LLM_ANSWERS : a.type \in {"done", "action"}}
                            ELSE {llm} :
                   ContCycle(go, r, llm, rep)
    \/ ContEnd

InitCont == PermIdle /\ Idle2

SpecCont == InitCont /\ [][NextCont]_vars

\* C32: when a cycle reaches the continuation without an error and its intent
\* carried a well-formed _next marker, the next intent is the chained step,
\* and the plan step queue gives the next intent only when the intent
\* carried no marker
C32_MarkerBeforeQueue ==
    cont.last.stage = "cont" /\ ~cont.last.has_error =>
        /\ chain_intent(cont.last.marker) # NoIntent =>
              cont.last.via = "chain" /\ cont.intent = chain_intent(cont.last.marker)
        /\ cont.last.via = "queue" => cont.last.marker = <<>>

\* C32 as the code has it: without an error, a non-empty plan step queue is
\* popped and the marker is not chained; with an empty queue a well-formed
\* marker that maps to an action gives the next intent
C32_QueueBeforeMarker ==
    cont.last.stage = "cont" /\ ~cont.last.has_error =>
        /\ cont.last.queued > 0 =>
              cont.last.via # "chain" /\ Len(cont.step_queue) = cont.last.queued - 1
        /\ cont.last.queued = 0 /\ chain_intent(cont.last.marker) # NoIntent =>
              cont.last.via = "chain" /\ cont.intent = chain_intent(cont.last.marker)

\* a plan step with a _next marker ran without error while steps were queued
C32_Witness ==
    /\ cont.last.stage = "cont" /\ ~cont.last.has_error
    /\ cont.last.queued > 0 /\ chain_intent(cont.last.marker) # NoIntent
    /\ cont.last.via = "queue"

\* C33: a turn never starts a dispatch once the five latest dispatch results
\* in a row were errors
C33_NoDispatchAfterFiveErrors == ~cont.late

(***************************************************************************)
(* Auto-routing of a pulse turn: telegram_bot_pulse.py handle_message      *)
(* (_backend_override installed for the chat, removed after the loop)      *)
(***************************************************************************)

ROUTE_CHATS == {1, 2}
\* awaited calls of a turn between the auto-routing block and the removal
\* (the intent call, the replies to the user, the dispatches), kept small
MaxAwaits == 2
\* turns a chat makes
MaxRouteTurns == 2

\* the auto-routing block: with routing enabled, a complex request, a local
\* backend and an Anthropic key the override of the chat is installed and
\* _routed_backend remembers the turn did it
RouteBegin(c, upgrade) ==
    /\ route.turn[c].pc = "idle"
    /\ route.turn[c].n < MaxRouteTurns
    /\ route' = [route EXCEPT
          !.override = IF upgrade THEN @ \cup {c} ELSE @,
          !.turn[c] = [pc |-> "running", routed |-> upgrade, awaits |-> 0,
                       exit |-> "", n |-> @.n + 1]]
    /\ UNCHANGED nonRouteVars

\* an awaited call in the body of the turn returns
RouteAwait(c) ==
    /\ route.turn[c].pc = "running"
    /\ route.turn[c].awaits < MaxAwaits
    /\ route' = [route EXCEPT !.turn[c].awaits = @ + 1]
    /\ UNCHANGED nonRouteVars

\* an awaited call outside every try block raises (reply_text of the
\* Telegram API on a network error or timeout, a cancellation): the
\* exception leaves handle_message at that line
RouteRaise(c) ==
    /\ route.turn[c].pc = "running"
    /\ route' = [route EXCEPT !.turn[c].pc = "over", !.turn[c].exit = "raised"]
    /\ UNCHANGED nonRouteVars

\* past the loop and the response fallback: "if _routed_backend is not
\* None" the override of the chat is popped
RouteEnd(c) ==
    /\ route.turn[c].pc = "running"
    /\ route' = [route EXCEPT
          !.override = IF route.turn[c].routed THEN @ \ {c} ELSE @,
          !.turn[c].pc = "over", !.turn[c].exit = "returned"]
    /\ UNCHANGED nonRouteVars

\* the chat's next message
RouteNextMessage(c) ==
    /\ route.turn[c].pc = "over"
    /\ route' = [route EXCEPT !.turn[c].pc = "idle"]
    /\ UNCHANGED nonRouteVars

NextRoute ==
    \E c \in ROUTE_CHATS :
       \/ \E upgrade \in BOOLEAN : RouteBegin(c, upgrade)
       \/ RouteAwait(c)
       \/ RouteRaise(c)
       \/ RouteEnd(c)
       \/ RouteNextMessage(c)

InitRoute == PermIdle /\ Idle2

SpecRoute == InitRoute /\ [][NextRoute]_vars

\* C34: when a turn that installed the override of its chat is over, by
\* whatever exit, the mapping holds no override for the chat
C34_OverrideRemovedOnEveryExit ==
    \A c \in ROUTE_CHATS :
       route.turn[c].pc = "over" /\ route.turn[c].routed => c \notin route.override

(***************************************************************************)
(* Curiosity fail counts: _engine_levels.py do_curiosity,                  *)
(* _stimulus.py CuriosityDriver.run_cycle                                  *)
(***************************************************************************)

\* "if fail_n >= 3"
SUPPRESS_AFTER == 3
\* the counts a goal's failures are followed up to
MaxFails == 4

\* goal names the LLM synthesises; "unknown" stands for the key of a cycle
\* without a goal (result.get("goal", "unknown"), or False)
GOAL_KEYS == {"log_parser", "json_check", "unknown"}
\* what run_cycle returns: rate limited, no gap, no goal synthesised, goal
\* rejected by the relevance gate, goal executed with or without success
CYCLE_KINDS == {"skipped", "no_gaps", "no_goal", "rejected", "success", "failed"}

\* run_cycle executes the goal the LLM synthesised; nothing in it reads
\* the engine's _curiosity_fail_count
goal_executed(kind) == kind \in {"success", "failed"}

\* do_curiosity after run_cycle returned `kind` for goal key `key`;
\* web_due: the web explore level is due, so an unproductive cycle falls
\* through to it and returns
do_curiosity_after(s, kind, key, web_due) ==
    LET ran == [s EXCEPT !.last = [kind |-> kind, key |-> key,
                                   executed |-> goal_executed(kind),
                                   before |-> s.fail_count[key], audit |-> ""]]
    IN  IF kind \notin {"skipped", "success"} /\ web_due
        THEN [ran EXCEPT !.last.audit = "web_explore"]
        ELSE IF kind = "skipped" THEN ran
        ELSE IF kind = "success"
        THEN [ran EXCEPT !.fail_count[key] = 0, !.last.audit = "curiosity_success"]
        ELSE [ran EXCEPT !.fail_count[key] = @ + 1,
                         !.last.audit = IF s.fail_count[key] + 1 >= SUPPRESS_AFTER
                                        THEN "curiosity_suppressed" ELSE "curiosity_cycle"]

CuriosityLevel(kind, key, web_due) ==
    /\ kind \in {"no_gaps", "no_goal"} => key = "unknown"
    /\ kind \in {"rejected", "success", "failed"} => key # "unknown"
    /\ sup.fail_count[key] < MaxFails
    /\ sup' = do_curiosity_after(sup, kind, key, web_due)
    /\ UNCHANGED nonSupVars

\* the engine is restarted: _curiosity_fail_count starts empty
SupRestart ==
    /\ sup # NewSuppress
    /\ sup' = NewSuppress
    /\ UNCHANGED nonSupVars

NextSuppress ==
    \/ \E kind \in CYCLE_KINDS, key \in GOAL_KEYS, web_due \in BOOLEAN :
          CuriosityLevel(kind, key, web_due)
    \/ SupRestart

InitSuppress == PermIdle /\ Idle2

SpecSuppress == InitSuppress /\ [][NextSuppress]_vars

\* C35: the curiosity level executes no goal whose consecutive fail count
\* is 3 or more
C35_SuppressedGoalNotExecuted ==
    sup.last.executed => sup.last.before < SUPPRESS_AFTER

(***************************************************************************)
(* The executed mark of genesis suggestions: _engine_levels.py do_heal     *)
(***************************************************************************)

\* lines genesis_suggestions.jsonl holds
MaxSuggestions == 3
\* "s.get("priority", 0) >= 3"
HEAL_MIN_PRIORITY == 3
\* heal runs that pick one and the same key up
MaxPicks == 3
HEAL_KEYS == {"retry_http", "parse_log"}
HEAL_PRIORITIES == {2, 3, 4}
\* what the LLM generates for the proposal: nothing, code with one of the
\* _DANGEROUS patterns, code of 30 characters or less, usable code
GENERATED == {"empty", "dangerous", "short", "code"}
\* how the run goes on with usable code: the script cannot be written
\* (OSError), the sandbox run fails, it passes
SCRIPT_RUNS == {"write_raises", "fails", "passes"}

\* the suggestions do_heal considers, as indexes into the file
Eligible(file) ==
    {i \in 1..Len(file) : file[i].priority >= HEAL_MIN_PRIORITY /\ ~file[i].executed}

\* suggestions.sort(key=priority, reverse=True)[0]: the first line of the
\* highest priority (the sort is stable)
pick_suggestion(file) ==
    CHOOSE i \in Eligible(file) :
        \A j \in Eligible(file) :
            \/ file[j].priority < file[i].priority
            \/ file[j].priority = file[i].priority /\ i <= j

\* the rewrite of the file: every line with the suggestion's key is
\* replaced by the marked suggestion
mark_executed(file, i) ==
    [j \in 1..Len(file) |->
        IF file[j].key = file[i].key THEN [file[i] EXCEPT !.executed = TRUE] ELSE file[j]]

\* one run of the heal level
do_heal_marks(h, generated, run) ==
    IF Eligible(h.file) = {} THEN [h EXCEPT !.last = [picked |-> NoKey, how |-> "none"]]
    ELSE LET i == pick_suggestion(h.file)
             went == [h EXCEPT !.last = [picked |-> h.file[i].key, how |-> generated],
                               !.picks[h.file[i].key] = @ + 1]
         IN  IF generated = "dangerous" THEN went
             ELSE IF generated = "code" /\ run = "write_raises"
             THEN [went EXCEPT !.last.how = run]
             ELSE [went EXCEPT !.file = mark_executed(h.file, i),
                               !.last.how = IF generated = "code" THEN run ELSE generated]

HealMarks(generated, run) ==
    /\ \A k \in HEAL_KEYS : marks.picks[k] < MaxPicks
    /\ marks' = do_heal_marks(marks, generated, run)
    /\ UNCHANGED nonMarkVars

\* reflect's genesis emitter appends a suggestion for a key that has no
\* line yet
HealSuggest(key, priority) ==
    /\ Len(marks.file) < MaxSuggestions
    /\ \A i \in 1..Len(marks.file) : marks.file[i].key # key
    /\ marks' = [marks EXCEPT
          !.file = Append(@, [key |-> key, priority |-> priority, executed |-> FALSE]),
          !.last = [picked |-> NoKey, how |-> "suggest"]]
    /\ UNCHANGED nonMarkVars

NotExecuted(s) == ~s.executed

\* hygiene drops the executed suggestions
HealPrune ==
    /\ \E i \in 1..Len(marks.file) : marks.file[i].executed
    /\ marks' = [marks EXCEPT
          !.file = SelectSeq(@, NotExecuted),
          !.last = [picked |-> NoKey, how |-> "prune"]]
    /\ UNCHANGED nonMarkVars

NextMarks ==
    \/ \E generated \in GENERATED, run \in SCRIPT_RUNS : HealMarks(generated, run)
    \/ \E key \in HEAL_KEYS, priority \in HEAL_PRIORITIES : HealSuggest(key, priority)
    \/ HealPrune

InitMarks == PermIdle /\ Idle2

SpecMarks == InitMarks /\ [][NextMarks]_vars

\* C36: at the end of a heal run that picked a suggestion up, the
\* suggestion is marked executed in the file
C36_PickedIsMarked ==
    marks.last.picked # NoKey =>
        \A i \in 1..Len(marks.file) :
            marks.file[i].key = marks.last.picked => marks.file[i].executed

(***************************************************************************)
(* The reflect cooldown: _engine_levels.py do_reflect (stale rules),       *)
(* _engine.py tick, _engine_burst.py autonomous_burst, pick_next_action    *)
(***************************************************************************)

\* _TIMINGS_NORMAL["l1_rate"], seconds
l1_rate == 300
\* "engine.level_done["reflect"] = time.time() + 300"
REFLECT_SKIP == 300
\* seconds the clock advances by between two looks at it
ReflStep == 50
\* the clock's last value
MaxReflTime == 1000

\* do_reflect at time `now`: with unchanged rules it pushes the level's
\* timestamp into the future and returns; otherwise it leaves it alone
do_reflect_stamp(level_done, now, stale) ==
    IF stale THEN now + REFLECT_SKIP ELSE level_done

\* tick(): "if self.level_done.get("reflect", 0) <= now" the timestamp is
\* set to now
tick_stamp(level_done, now) == IF level_done <= now THEN now ELSE level_done

\* autonomous_burst: "if level_key: engine.level_done[level_key] =
\* time.time()" after the handler returned
burst_stamp(level_done, now) == now

Reflected(r, stale, stamp) ==
    [r EXCEPT !.level_done = stamp,
              !.runs = @ + 1,
              !.last = [at |-> r.now, stale |-> stale, where |-> IF r.in_burst THEN "burst" ELSE "tick",
                        prev_at |-> r.last.at, prev_stale |-> r.last.stale]]

\* the reflect block of a tick, when the level is due
ReflTick(stale) ==
    /\ ~refl.in_burst
    /\ refl.now - refl.level_done >= l1_rate
    /\ refl' = Reflected(refl, stale,
                  tick_stamp(do_reflect_stamp(refl.level_done, refl.now, stale), refl.now))
    /\ UNCHANGED nonReflVars

\* a burst turn in which pick_next_action returns reflect: the rate is
\* halved inside a burst (rate_factor 0.5)
ReflBurstTurn(stale) ==
    /\ refl.in_burst
    /\ refl.now - refl.level_done >= l1_rate \div 2
    /\ refl' = Reflected(refl, stale,
                  burst_stamp(do_reflect_stamp(refl.level_done, refl.now, stale), refl.now))
    /\ UNCHANGED nonReflVars

\* the burst level of a tick starts a session; the session ends
ReflBurstBegin ==
    /\ ~refl.in_burst
    /\ refl' = [refl EXCEPT !.in_burst = TRUE]
    /\ UNCHANGED nonReflVars

ReflBurstEnd ==
    /\ refl.in_burst
    /\ refl' = [refl EXCEPT !.in_burst = FALSE]
    /\ UNCHANGED nonReflVars

ReflPass ==
    /\ refl.now + ReflStep <= MaxReflTime
    /\ refl' = [refl EXCEPT !.now = @ + ReflStep]
    /\ UNCHANGED nonReflVars

NextReflect ==
    \/ \E stale \in BOOLEAN : ReflTick(stale)
    \/ \E stale \in BOOLEAN : ReflBurstTurn(stale)
    \/ ReflBurstBegin
    \/ ReflBurstEnd
    \/ ReflPass

InitReflect == PermIdle /\ Idle2

SpecReflect == InitReflect /\ [][NextReflect]_vars

\* C37: a reflect that follows a reflect with unchanged rules runs at
\* least 5 minutes after it, in a tick and in a burst turn alike
C37_NoReflectWithinSkip ==
    refl.runs >= 2 /\ refl.last.prev_stale => refl.last.at - refl.last.prev_at >= REFLECT_SKIP

(***************************************************************************)
(* The alert queue: telegram_bot.py _autonomic_alert_enqueue (engine       *)
(* thread), autonomic_heartbeat (event loop)                               *)
(***************************************************************************)

\* alerts the engine emits
MaxAlerts == 4
\* "if len(_alert_queue) < 50", kept small
ALERT_CAP == 3
\* "for msg in pending[:10]", kept small
PER_BEAT == 2
\* "for _retry in range(3)"
SEND_TRIES == 3

ALERT_IDS == 1..MaxAlerts

FirstN(s, n) == IF Len(s) <= n THEN s ELSE SubSeq(s, 1, n)

SeqSet(s) == {s[i] : i \in 1..Len(s)}

\* the engine thread emits its next alert: it is appended while the queue
\* holds fewer than the cap, and dropped otherwise
autonomic_alert_enqueue(a) ==
    IF Len(a.queue) < ALERT_CAP
    THEN [a EXCEPT !.queue = Append(@, a.emitted + 1), !.emitted = @ + 1,
                   !.accepted = @ \cup {a.emitted + 1}]
    ELSE [a EXCEPT !.emitted = @ + 1]

AlertEnqueue ==
    /\ alerts.emitted < MaxAlerts
    /\ alerts' = autonomic_alert_enqueue(alerts)
    /\ UNCHANGED nonAlertVars

\* the heartbeat callback under the queue lock: pending is a copy of the
\* queue, the queue is cleared, and the first PER_BEAT of pending are what
\* the loop below goes through.  A target chat is configured.
HeartbeatTake ==
    /\ alerts.sending = <<>>
    /\ alerts.queue # <<>>
    /\ alerts' = [alerts EXCEPT !.queue = <<>>,
                                !.sending = FirstN(alerts.queue, PER_BEAT),
                                !.retry = 0,
                                !.cleared = @ \cup SeqSet(alerts.queue)]
    /\ UNCHANGED nonAlertVars

\* one pass of the retry loop for the message at the head: send_message is
\* awaited; on success, or after the last try, the loop moves on
AlertSend(ok) ==
    /\ alerts.sending # <<>>
    /\ alerts' = [alerts EXCEPT
          !.attempted = @ \cup {Head(alerts.sending)},
          !.delivered = IF ok THEN @ \cup {Head(alerts.sending)} ELSE @,
          !.sending = IF ok \/ alerts.retry + 1 >= SEND_TRIES THEN Tail(@) ELSE @,
          !.retry = IF ok \/ alerts.retry + 1 >= SEND_TRIES THEN 0 ELSE @ + 1]
    /\ UNCHANGED nonAlertVars

NextAlerts ==
    \/ AlertEnqueue
    \/ HeartbeatTake
    \/ \E ok \in BOOLEAN : AlertSend(ok)

InitAlerts == PermIdle /\ Idle2

SpecAlerts == InitAlerts /\ [][NextAlerts]_vars

\* the job queue runs the heartbeat every interval, and the event loop
\* resumes the callback after each awaited send
SpecAlertsFair ==
    /\ SpecAlerts
    /\ WF_vars(HeartbeatTake)
    /\ WF_vars(\E ok \in BOOLEAN : AlertSend(ok))

\* C38: every alert accepted into the queue is eventually handed to the
\* transport
C38_AcceptedEventuallyAttempted ==
    \A id \in ALERT_IDS : (id \in alerts.accepted) ~> (id \in alerts.attempted)

(***************************************************************************)
(* The circuit breaker of heal categories: machina_gvu_tracker.py          *)
(* CurriculumTracker.record_heal_result / is_category_paused,              *)
(* _engine_levels.py do_test_and_learn, machina_gvu.py attempt_heal        *)
(***************************************************************************)

\* machina_gvu_tracker.CONSECUTIVE_FAIL_LIMIT
CONSECUTIVE_FAIL_LIMIT == 3
\* "int(time.time()) + 3600"
PAUSE_SEC == 3600
\* seconds between two runs of the test level (its rate, l2_rate)
BreakerStep == 600
\* the clock's last value
MaxBreakerTime == 9000
\* the consecutive fails of a category are followed up to this count
MaxCatFails == 4

\* the category attempt_heal picks: the most frequent among the failures
HEAL_CATEGORIES == {"intent", "tool"}
\* how attempt_heal ends once past the rate limit: it returns before the
\* script is written (no category in the result), the script fails in the
\* sandbox, it passes and the regression gate accepts, it passes and is
\* rolled back
BREAKER_OUTCOMES == {"early", "failed", "success", "rolled_back"}

is_category_paused(b, cat) == b.paused[cat] # 0 /\ b.now < b.paused[cat]

\* record_heal_result of a result that names its category
record_heal_result(b, cat, success) ==
    IF success THEN [b EXCEPT !.category_fails[cat] = 0]
    ELSE IF b.category_fails[cat] + 1 >= CONSECUTIVE_FAIL_LIMIT
    THEN [b EXCEPT !.category_fails[cat] = @ + 1, !.paused[cat] = b.now + PAUSE_SEC]
    ELSE [b EXCEPT !.category_fails[cat] = @ + 1]

\* the feedback loop of the test level for failures of category `cat`:
\* attempt_heal (rate limit, generation, sandbox), the regression gate,
\* record_heal_result.  Nothing on the way calls is_category_paused.
heal_feedback(b, cat, outcome) ==
    LET recent == WithinHour(b.genesis_recent, b.now)
        tried == [b EXCEPT !.genesis_recent = recent,
                           !.last = [cat |-> cat, attempted |-> FALSE,
                                     paused |-> is_category_paused(b, cat), at |-> b.now]]
    IN  IF ~rate_ok(b.genesis_recent, b.now) THEN tried
        ELSE IF outcome = "early" THEN [tried EXCEPT !.last.attempted = TRUE]
        ELSE record_heal_result(
                 [tried EXCEPT !.genesis_recent = Append(recent, b.now),
                               !.last.attempted = TRUE],
                 cat, outcome = "success")

BreakerHeal(cat, outcome) ==
    /\ brk.category_fails[cat] < MaxCatFails
    /\ brk.last.at # brk.now
    /\ brk' = heal_feedback(brk, cat, outcome)
    /\ UNCHANGED nonBrkVars

BreakerPass ==
    /\ brk.now + BreakerStep <= MaxBreakerTime
    /\ brk' = [brk EXCEPT !.now = @ + BreakerStep]
    /\ UNCHANGED nonBrkVars

NextBreaker ==
    \/ \E cat \in HEAL_CATEGORIES, outcome \in BREAKER_OUTCOMES : BreakerHeal(cat, outcome)
    \/ BreakerPass

InitBreaker == PermIdle /\ Idle2

SpecBreaker == InitBreaker /\ [][NextBreaker]_vars

\* C39: no heal is attempted for a category while its pause lasts
C39_NoHealWhilePaused == brk.last.attempted => ~brk.last.paused

(***************************************************************************)
(* Change governance: machina_evolution_governor.py EvolutionGovernor,     *)
(* machina_evolution_policy.py check_immutable_guardrails                  *)
(***************************************************************************)

PROPOSAL_IDS == 1..MaxProposals
\* keys a proposal's changes may touch; the first is one of IMMUTABLE_KEYS
CHANGE_KEYS == {"MACHINA_ROOT", "TOOL_TIMEOUT"}
IMMUTABLE_KEYS == {"MACHINA_PERMISSION_MODE", "MACHINA_PERMISSION_OVERRIDES",
                   "MACHINA_ROOT", "MACHINA_BWRAP_REQUIRED"}
TERMINAL_STATES == {"rejected", "rolled_back", "committed"}

\* allowed iff no key of the changes is immutable
check_immutable_guardrails(changes) == changes \cap IMMUTABLE_KEYS = {}

GovDid(g, op, pid, after) ==
    [g EXCEPT !.state[pid] = after,
              !.rejected = IF op = "evaluate" /\ after = "rejected" THEN @ \cup {pid} ELSE @,
              !.last = [op |-> op, pid |-> pid, before |-> g.state[pid], after |-> after]]

\* the next id of the counter; the proposal is stored in state "proposed"
submit_proposal(g, changes) ==
    [GovDid(g, "submit", g.submitted + 1, "proposed") EXCEPT
        !.submitted = @ + 1, !.changes[g.submitted + 1] = changes]

\* the state becomes "rejected" or "canary", whatever it was
evaluate_proposal(g, pid) ==
    IF check_immutable_guardrails(g.changes[pid])
    THEN GovDid(g, "evaluate", pid, "canary")
    ELSE GovDid(g, "evaluate", pid, "rejected")

\* refused for a rejected or rolled back proposal; in every other state,
\* "unknown" included, the proposal is committed or rolled back
commit_or_rollback(g, pid, canary_ok) ==
    IF g.state[pid] \in {"rejected", "rolled_back"} THEN GovDid(g, "none", pid, g.state[pid])
    ELSE IF canary_ok THEN GovDid(g, "commit", pid, "committed")
    ELSE GovDid(g, "rollback", pid, "rolled_back")

GovSubmit(changes) ==
    /\ gov.submitted < MaxProposals
    /\ gov' = submit_proposal(gov, changes)
    /\ UNCHANGED nonGovVars

\* an id that was not submitted raises KeyError
GovEvaluate(pid) ==
    /\ pid <= gov.submitted
    /\ gov' = evaluate_proposal(gov, pid)
    /\ UNCHANGED nonGovVars

GovCommitOrRollback(pid, canary_ok) ==
    /\ gov' = commit_or_rollback(gov, pid, canary_ok)
    /\ UNCHANGED nonGovVars

NextGovernor ==
    \/ \E changes \in SUBSET CHANGE_KEYS : GovSubmit(changes)
    \/ \E pid \in PROPOSAL_IDS : GovEvaluate(pid)
    \/ \E pid \in PROPOSAL_IDS, canary_ok \in BOOLEAN : GovCommitOrRollback(pid, canary_ok)

InitGovernor == PermIdle /\ Idle2

SpecGovernor == InitGovernor /\ [][NextGovernor]_vars

\* C40: a proposal becomes committed only from canary; rejected, rolled_back
\* and committed are left by no operation; a proposal the guardrails
\* rejected is never committed
C40_CommittedOnlyFromCanary ==
    /\ gov.last.after = "committed" /\ gov.last.before # "committed" =>
          gov.last.before = "canary"
    /\ gov.last.before \in TERMINAL_STATES => gov.last.after = gov.last.before
    /\ \A pid \in gov.rejected : gov.state[pid] # "committed"

====
